---- MODULE Spec2Model ----
(***************************************************************************)
(* Tool gating of the TrueNAS MCP HTTP server: the task-type / resource /  *)
(* security filter chain (http_api/tool_gating.py), the keyword intent     *)
(* classifier (http_api/intent_classifier.py), the tool registry           *)
(* (http_api/tool_registry.py), the JSON-RPC handlers with their           *)
(* per-session tool cache (http_api/mcp_server.py) and the /mcp endpoint   *)
(* (http_server.py).                                                       *)
(*                                                                         *)
(* Python values are modelled as follows.  A str is a TLA+ string, taken   *)
(* apart with Len and SubSeq.  An Optional value is None (the empty        *)
(* tuple) or Some(v) (the one-element tuple).  A list is a sequence.  A    *)
(* dict is a function whose DOMAIN is the set of its keys; where the code  *)
(* depends on the insertion order of a dict (the configured allowlists)    *)
(* the dict is a sequence of key/value records.                            *)
(***************************************************************************)
EXTENDS Integers, Sequences, FiniteSets, Bags, TLC

VARIABLES
    http_settings,          \* settings.py: the process-wide HttpServerSettings
    task_type_allowlists,   \* TaskTypeFilter.task_type_allowlists (canonical key -> names)
    alias_map,              \* TaskTypeFilter._alias_map (alias -> canonical key)
    max_tools,              \* ResourceFilter.max_tools
    blocklist,              \* SecurityFilter.blocklist
    all_tools,              \* ToolGateController.all_tools == TrueNASToolRegistry._tools
    tool_sizes,             \* ToolGateController._tool_sizes
    keyword_mappings,       \* KeywordIntentClassifier.keyword_mappings
    session_tools,          \* TrueNASHTTPMCP.session_tools
    inflight,               \* tools/call requests suspended in `await _invoke_handler`
    req,                    \* the request the event loop is running, None when it is free
    resp,                   \* its outcome: the response of mcp_endpoint, or its suspension
    last_list,              \* history: per session, the scopes and outcome of its last tools/list
    overwrote,              \* history: the running tools/list replaced a different cached set
    fin,                    \* filter harness: the arguments of the last filter application
    fout                    \* filter harness: its result

constVars == <<http_settings, task_type_allowlists, alias_map, max_tools, blocklist,
               all_tools, tool_sizes, keyword_mappings>>
serverVars == <<session_tools, inflight, req, resp, last_list, overwrote>>
harnessVars == <<fin, fout>>
vars == <<http_settings, task_type_allowlists, alias_map, max_tools, blocklist,
          all_tools, tool_sizes, keyword_mappings, session_tools, inflight, req, resp,
          last_list, overwrote, fin, fout>>

----------------------------------------------------------------------------
(* Python values *)

None == <<>>
Some(v) == <<v>>
Val(o) == o[1]

\* bool(x) of an Optional[str]: None and "" are falsy
TruthyStr(o) == o # None /\ Val(o) # ""
\* bool(x) of an Optional[list]: None and [] are falsy
TruthyList(o) == o # None /\ Len(Val(o)) > 0

\* dict comprehension {k: d[k] for k in d if k in keep}
Restrict(d, keep) == [k \in (DOMAIN d) \cap keep |-> d[k]]

Range(s) == {s[i] : i \in DOMAIN s}

----------------------------------------------------------------------------
(* str methods, over the ASCII characters the labels and names are made of *)

UpperChars == "ABCDEFGHIJKLMNOPQRSTUVWXYZ"
LowerChars == "abcdefghijklmnopqrstuvwxyz"
\* the characters in code-point order, for str comparison
CodePointOrder == " '-0123456789ABCDEFGHIJKLMNOPQRSTUVWXYZ[]_abcdefghijklmnopqrstuvwxyz"
\* the ASCII characters c with c.isspace(), which strip() removes: space, \t, \n,
\* \r, \f, vertical tab (0x0b) and the separators 0x1c to 0x1f; the last five
\* stand in the strings below as the characters themselves
Whitespace == {" ", "\t", "\n", "\r", "\f", "", "", "", "", ""}

Ch(s, i) == SubSeq(s, i, i)

UpperSet == {Ch(UpperChars, i) : i \in 1..Len(UpperChars)}
LowerOf == [c \in UpperSet |->
              Ch(LowerChars, CHOOSE i \in 1..Len(UpperChars) : Ch(UpperChars, i) = c)]

LowerChar(c) == IF c \in UpperSet THEN LowerOf[c] ELSE c

RECURSIVE str_lower(_)
str_lower(s) ==
    IF Len(s) = 0 THEN "" ELSE LowerChar(Ch(s, 1)) \o str_lower(SubSeq(s, 2, Len(s)))

RECURSIVE str_lstrip(_)
str_lstrip(s) ==
    IF Len(s) > 0 /\ Ch(s, 1) \in Whitespace THEN str_lstrip(SubSeq(s, 2, Len(s))) ELSE s

RECURSIVE str_rstrip(_)
str_rstrip(s) ==
    IF Len(s) > 0 /\ Ch(s, Len(s)) \in Whitespace
    THEN str_rstrip(SubSeq(s, 1, Len(s) - 1))
    ELSE s

str_strip(s) == str_rstrip(str_lstrip(s))

str_endswith(s, suffix) ==
    Len(s) >= Len(suffix) /\ SubSeq(s, Len(s) - Len(suffix) + 1, Len(s)) = suffix

\* s.replace(old, new) for a one-character old
RECURSIVE str_replace(_, _, _)
str_replace(s, old, new) ==
    IF Len(s) = 0 THEN ""
    ELSE (IF Ch(s, 1) = old THEN new ELSE Ch(s, 1))
         \o str_replace(SubSeq(s, 2, Len(s)), old, new)

\* sub in s
str_contains(s, sub) ==
    \E i \in 1..(Len(s) - Len(sub) + 1) : SubSeq(s, i, i + Len(sub) - 1) = sub

CodePointRank ==
    [c \in {Ch(CodePointOrder, i) : i \in 1..Len(CodePointOrder)} |->
        CHOOSE i \in 1..Len(CodePointOrder) : Ch(CodePointOrder, i) = c]

CodePoint(c) == CodePointRank[c]

\* a < b for str
RECURSIVE str_lt(_, _)
str_lt(a, b) ==
    IF Len(b) = 0 THEN FALSE
    ELSE IF Len(a) = 0 THEN TRUE
    ELSE IF Ch(a, 1) = Ch(b, 1) THEN str_lt(SubSeq(a, 2, Len(a)), SubSeq(b, 2, Len(b)))
    ELSE CodePoint(Ch(a, 1)) < CodePoint(Ch(b, 1))

\* str(list_of_str), as an f-string formats it
RECURSIVE list_items_repr(_)
list_items_repr(xs) ==
    IF Len(xs) = 0 THEN ""
    ELSE "'" \o Head(xs) \o "'"
         \o (IF Len(xs) > 1 THEN ", " ELSE "") \o list_items_repr(Tail(xs))

list_repr(xs) == "[" \o list_items_repr(xs) \o "]"

\* "x" * n
RECURSIVE str_repeat_x(_)
str_repeat_x(n) ==
    IF n = 0 THEN ""
    ELSE str_repeat_x(n \div 2) \o str_repeat_x(n \div 2) \o (IF n % 2 = 1 THEN "x" ELSE "")

----------------------------------------------------------------------------
(* len(json.dumps(v)) with the default separators ", " and ": ", for the    *)
(* values a Tool is made of; the strings hold no character that is escaped  *)

RECURSIVE seq_sum(_)
seq_sum(ns) == IF Len(ns) = 0 THEN 0 ELSE Head(ns) + seq_sum(Tail(ns))

json_null_len == Len("null")
json_str_len(s) == Len(s) + 2
json_int_len(n) == Len(ToString(n))

\* a list whose items take item_lens characters
json_list_len(item_lens) ==
    2 + seq_sum(item_lens) + (IF Len(item_lens) > 0 THEN 2 * (Len(item_lens) - 1) ELSE 0)

json_str_list_len(xs) == json_list_len([i \in DOMAIN xs |-> json_str_len(xs[i])])

\* a dict given as its entries [key, len] (len: the characters of the value)
json_dict_len(entries) ==
    2 + seq_sum([i \in DOMAIN entries |-> json_str_len(entries[i].key) + 2 + entries[i].len])
      + (IF Len(entries) > 0 THEN 2 * (Len(entries) - 1) ELSE 0)

\* a property of an input schema: {"type": ..., "description": ...}
json_property_len(prop) ==
    json_dict_len(<<[key |-> "type", len |-> json_str_len(prop.type)]>>
                  \o (IF prop.description # None
                      THEN <<[key |-> "description", len |-> json_str_len(Val(prop.description))]>>
                      ELSE <<>>))

\* an input schema: {"type": "object", "properties": {...}, "required": [...]}
json_schema_len(schema) ==
    json_dict_len(<<
        [key |-> "type", len |-> json_str_len(schema.type)],
        [key |-> "properties",
         len |-> json_dict_len([i \in DOMAIN schema.properties |->
                                  [key |-> schema.properties[i].name,
                                   len |-> json_property_len(schema.properties[i].schema)]])],
        [key |-> "required", len |-> json_str_list_len(schema.required)] >>)

----------------------------------------------------------------------------
(* tool_gating.py: Tool, FilterContext *)

\* len(json.dumps(tool.model_dump())) of a Tool with method "rpc", path
\* "/tools/<name>" and response_schema {"type": "object"}, as the registry and
\* the unit tests build it; the fields in the order the class declares them
model_dump_json_len(name, description, request_schema, task_types, priority, required_scopes) ==
    json_dict_len(<<
        [key |-> "name", len |-> json_str_len(name)],
        [key |-> "description", len |-> json_str_len(description)],
        [key |-> "method", len |-> json_str_len("rpc")],
        [key |-> "path", len |-> json_str_len("/tools/" \o name)],
        [key |-> "request_schema",
         len |-> IF request_schema = None THEN json_null_len
                 ELSE json_schema_len(Val(request_schema))],
        [key |-> "response_schema",
         len |-> json_dict_len(<<[key |-> "type", len |-> json_str_len("object")]>>)],
        [key |-> "task_types", len |-> json_str_list_len(task_types)],
        [key |-> "priority", len |-> json_int_len(priority)],
        [key |-> "required_scopes",
         len |-> IF required_scopes = None THEN json_null_len
                 ELSE json_str_list_len(Val(required_scopes))] >>)

\* Tool(name, description, ..., request_schema, task_types, priority,
\* required_scopes).  Of method, path and response_schema the server reads
\* only what they add to len(json.dumps(tool.model_dump())), which the size
\* estimator takes: serialized_len holds that length.
Tool(name, description, task_types, priority, required_scopes, request_schema) ==
    [name |-> name, description |-> description, task_types |-> task_types,
     priority |-> priority,
     required_scopes |-> required_scopes, request_schema |-> request_schema,
     serialized_len |-> model_dump_json_len(name, description, request_schema, task_types,
                                            priority, required_scopes)]

\* FilterContext(task_type, query, detected_task_types); client_id, session_id,
\* request_id and intent_confidence are only logged.
FilterContext(task_type, query, detected_task_types) ==
    [task_type |-> task_type, query |-> query, detected_task_types |-> detected_task_types]

----------------------------------------------------------------------------
(* tool_gating.py: TaskTypeFilter *)

normalize_key_case_sensitive(value) ==
    IF ~TruthyStr(value) THEN None
    ELSE LET normalized == str_strip(Val(value))
         IN  IF normalized = "" THEN None ELSE Some(normalized)

normalize_key(value) ==
    IF ~TruthyStr(value) THEN None
    ELSE LET normalized == str_lower(str_strip(Val(value)))
         IN  IF normalized = "" THEN None ELSE Some(normalized)

alias_candidates(canonical) ==
    LET trimmed == SubSeq(canonical, 1, Len(canonical) - Len("-ops"))
        hyphen_to_underscore == str_replace(canonical, "-", "_")
        compact == str_replace(hyphen_to_underscore, "_", "")
    IN  (IF str_endswith(canonical, "-ops") /\ trimmed # "" THEN {trimmed} ELSE {})
        \cup (IF hyphen_to_underscore # "" /\ hyphen_to_underscore # canonical
              THEN {hyphen_to_underscore} ELSE {})
        \cup (IF compact # "" /\ compact # canonical THEN {compact} ELSE {})

\* first loop of _expand_allowlists: raw is the configured dict in insertion
\* order; the result is the normalized dict (map) with its key order (order).
RECURSIVE expand_normalized(_, _)
expand_normalized(raw, acc) ==
    IF Len(raw) = 0 THEN acc
    ELSE LET canonical == normalize_key(Some(Head(raw).key))
         IN  IF canonical = None THEN expand_normalized(Tail(raw), acc)
             ELSE LET c == Val(canonical)
                  IN  expand_normalized(Tail(raw),
                        [order |-> IF c \in DOMAIN acc.map THEN acc.order
                                   ELSE Append(acc.order, c),
                         map |-> [k \in (DOMAIN acc.map) \cup {c} |->
                                    IF k = c THEN Head(raw).tools ELSE acc.map[k]]])

\* second loop of _expand_allowlists
RECURSIVE expand_aliases(_, _, _)
RECURSIVE expand_aliases_shadowing(_, _, _)
expand_aliases_shadowing(order, normalized, amap) ==
    IF Len(order) = 0 THEN amap
    ELSE LET canonical == Head(order)
             fresh == {alias \in alias_candidates(canonical) : alias \notin DOMAIN amap}
         IN  expand_aliases_shadowing(Tail(order), normalized,
                            [a \in (DOMAIN amap) \cup fresh |->
                               IF a \in fresh THEN canonical ELSE amap[a]])

expand_aliases(order, normalized, amap) ==
    IF Len(order) = 0 THEN amap
    ELSE LET canonical == Head(order)
             fresh == {alias \in alias_candidates(canonical) :
                         ~(alias \in DOMAIN normalized \/ alias \in DOMAIN amap)}
         IN  expand_aliases(Tail(order), normalized,
                            [a \in (DOMAIN amap) \cup fresh |->
                               IF a \in fresh THEN canonical ELSE amap[a]])

expand_allowlists(raw) ==
    LET n == expand_normalized(raw, [order |-> <<>>, map |-> <<>>])
    IN  [normalized |-> n.map, alias_map |-> expand_aliases(n.order, n.map, <<>>)]

RECURSIVE normalize_task_types(_)
RECURSIVE normalize_task_types_keeping_unknown(_)
normalize_task_types_keeping_unknown(task_types) ==
    IF Len(task_types) = 0 THEN <<>>
    ELSE LET key == normalize_key(Some(Head(task_types)))
             rest == normalize_task_types_keeping_unknown(Tail(task_types))
         IN  IF key = None THEN rest
             ELSE IF Val(key) \in DOMAIN task_type_allowlists THEN <<Val(key)>> \o rest
             ELSE IF Val(key) \in DOMAIN alias_map THEN <<alias_map[Val(key)]>> \o rest
             ELSE <<Val(key)>> \o rest

normalize_task_types(task_types) ==
    IF Len(task_types) = 0 THEN <<>>
    ELSE LET key == normalize_key(Some(Head(task_types)))
             rest == normalize_task_types(Tail(task_types))
         IN  IF key = None THEN rest
             ELSE IF Val(key) \in DOMAIN task_type_allowlists THEN <<Val(key)>> \o rest
             ELSE IF Val(key) \in DOMAIN alias_map THEN <<alias_map[Val(key)]>> \o rest
             ELSE rest

merge_allowlists(task_types) ==
    UNION {IF task_types[i] \in DOMAIN task_type_allowlists
           THEN task_type_allowlists[task_types[i]] ELSE {} : i \in DOMAIN task_types}

\* strict_context_limit or not intent_fallback_to_all
strict_or_no_fallback ==
    http_settings.strict_context_limit \/ ~http_settings.intent_fallback_to_all

\* the label source chosen by intent_precedence (lines 66-82)
task_types_intent_first(context) ==
    IF TruthyList(context.detected_task_types) THEN Val(context.detected_task_types)
    ELSE IF TruthyStr(context.task_type) THEN <<Val(context.task_type)>>
    ELSE <<>>

task_types_by_precedence(context) ==
    IF http_settings.intent_precedence = "intent"
    THEN IF TruthyList(context.detected_task_types) THEN Val(context.detected_task_types)
         ELSE IF TruthyStr(context.task_type) THEN <<Val(context.task_type)>>
         ELSE <<>>
    ELSE IF TruthyStr(context.task_type) THEN <<Val(context.task_type)>>
         ELSE IF TruthyList(context.detected_task_types) THEN Val(context.detected_task_types)
         ELSE <<>>

\* the test of lines 52-56
strict_no_match_if_query_truthy(context) ==
    /\ TruthyStr(context.query)
    /\ context.detected_task_types = Some(<<>>)
    /\ strict_or_no_fallback

strict_no_match_on_falsy_detection(context) ==
    /\ context.query # None
    /\ ~TruthyList(context.detected_task_types)
    /\ strict_or_no_fallback

strict_no_match(context) ==
    /\ context.query # None
    /\ context.detected_task_types = Some(<<>>)
    /\ strict_or_no_fallback

\* the comprehension of lines 87-89
exclude_meta_ops_first_tag_only(tools) ==
    Restrict(tools, {name \in DOMAIN tools : tools[name].task_types[1] # "meta-ops"})

exclude_meta_ops(tools) ==
    Restrict(tools, {name \in DOMAIN tools : "meta-ops" \notin Range(tools[name].task_types)})

\* the comprehension of lines 111-115
allowlist_only(tools, task_types_to_use, merged_allowlist) ==
    Restrict(tools, {name \in DOMAIN tools : name \in merged_allowlist})

self_tag_only(tools, task_types_to_use, merged_allowlist) ==
    Restrict(tools, {name \in DOMAIN tools :
        \E i \in DOMAIN task_types_to_use :
            task_types_to_use[i] \in Range(tools[name].task_types)})

allowlist_and_self_tag(tools, task_types_to_use, merged_allowlist) ==
    Restrict(tools, {name \in DOMAIN tools :
        /\ name \in merged_allowlist
        /\ \E i \in DOMAIN task_types_to_use :
               task_types_to_use[i] \in Range(tools[name].task_types)})

TaskTypeFilter_apply_degrading_to_default(tools, context) ==
    IF strict_no_match(context) THEN <<>>
    ELSE LET task_types_to_use == normalize_task_types(task_types_by_precedence(context))
             merged_allowlist == merge_allowlists(task_types_to_use)
         IN  IF Len(task_types_to_use) = 0 THEN exclude_meta_ops(tools)
             ELSE IF merged_allowlist = {}
             THEN (IF strict_or_no_fallback THEN <<>> ELSE exclude_meta_ops(tools))
             ELSE allowlist_and_self_tag(tools, task_types_to_use, merged_allowlist)

TaskTypeFilter_apply(tools, context) ==
    IF strict_no_match(context) THEN <<>>
    ELSE LET task_types_to_use == normalize_task_types(task_types_by_precedence(context))
             merged_allowlist == merge_allowlists(task_types_to_use)
         IN  IF Len(task_types_to_use) = 0 THEN exclude_meta_ops(tools)
             ELSE IF merged_allowlist = {}
             THEN (IF strict_or_no_fallback THEN <<>> ELSE tools)
             ELSE allowlist_and_self_tag(tools, task_types_to_use, merged_allowlist)

----------------------------------------------------------------------------
(* tool_gating.py: ResourceFilter, SecurityFilter *)

\* the sort key (-priority, name) of ResourceFilter.apply: a sorts before b
sorts_before_by_name(tools, a, b) == str_lt(a, b)

sorts_before(tools, a, b) ==
    \/ tools[a].priority > tools[b].priority
    \/ tools[a].priority = tools[b].priority /\ str_lt(a, b)

\* max_tools >= 1 (a negative cap would make the slice drop from the end)
ResourceFilter_apply_counting_permitted(tools, context) ==
    IF Cardinality(DOMAIN tools) <= max_tools THEN tools
    ELSE Restrict(tools, {n \in DOMAIN tools :
            \/ n \in blocklist
            \/ Cardinality({m \in (DOMAIN tools) \ blocklist :
                                sorts_before(tools, m, n)}) < max_tools})

ResourceFilter_apply(tools, context) ==
    IF Cardinality(DOMAIN tools) <= max_tools THEN tools
    ELSE Restrict(tools, {n \in DOMAIN tools :
            Cardinality({m \in DOMAIN tools : sorts_before(tools, m, n)}) < max_tools})

SecurityFilter_apply_disabled(tools, context) == tools

SecurityFilter_apply(tools, context) ==
    Restrict(tools, {name \in DOMAIN tools : name \notin blocklist})

----------------------------------------------------------------------------
(* tool_gating.py: ToolGateController *)

filter_names == <<"TaskTypeFilter", "ResourceFilter", "SecurityFilter">>

filter_apply_security_first(i, tools, context) ==
    CASE i = 1 -> TaskTypeFilter_apply(tools, context)
      [] i = 2 -> SecurityFilter_apply(tools, context)
      [] i = 3 -> ResourceFilter_apply(tools, context)

filter_apply(i, tools, context) ==
    CASE i = 1 -> TaskTypeFilter_apply(tools, context)
      [] i = 2 -> ResourceFilter_apply(tools, context)
      [] i = 3 -> SecurityFilter_apply(tools, context)

\* the loop of get_available_tools from filter i on
RECURSIVE run_filters(_, _, _, _)
run_filters(i, tools, filters_applied, context) ==
    IF i > Len(filter_names) THEN [tools |-> tools, filters_applied |-> filters_applied]
    ELSE LET before == tools
             after == filter_apply(i, tools, context)
         IN  run_filters(i + 1, after,
                         IF after # before THEN Append(filters_applied, filter_names[i])
                         ELSE filters_applied,
                         context)

get_available_tools(context) == run_filters(1, all_tools, <<>>, context)

HardLimit == 7600
AdvisoryLimit == 5000

RECURSIVE sum_over(_, _)
sum_over(f, keys) ==
    IF keys = {} THEN 0
    ELSE LET k == CHOOSE x \in keys : TRUE IN f[k] + sum_over(f, keys \ {k})

\* len(json.dumps([tool.model_dump() for tool in tools.values()]))
serialized_list_len(tools) ==
    LET n == Cardinality(DOMAIN tools)
    IN  2 + sum_over([k \in DOMAIN tools |-> tools[k].serialized_len], DOMAIN tools)
          + (IF n > 0 THEN 2 * (n - 1) ELSE 0)

\* _precompute_tool_sizes, with the len(serialized) // 4 estimate
precompute_tool_sizes(tools) == [name \in DOMAIN tools |-> tools[name].serialized_len \div 4]

\* enforce_hard_limit is None, Some(TRUE) or Some(FALSE).  The result is
\* [raised |-> TRUE] for the ValueError, else the count.
get_context_size_raising_at_limit(tools, enforce_hard_limit) ==
    LET enforce == IF enforce_hard_limit = None THEN http_settings.strict_context_limit
                   ELSE Val(enforce_hard_limit)
        token_count ==
            IF DOMAIN tool_sizes # {}
            THEN sum_over([name \in DOMAIN tools |->
                             IF name \in DOMAIN tool_sizes THEN tool_sizes[name] ELSE 0],
                          DOMAIN tools)
            ELSE serialized_list_len(tools) \div 4
    IN  IF token_count >= HardLimit /\ enforce
        THEN [raised |-> TRUE, token_count |-> token_count]
        ELSE [raised |-> FALSE, token_count |-> token_count]

get_context_size(tools, enforce_hard_limit) ==
    LET enforce == IF enforce_hard_limit = None THEN http_settings.strict_context_limit
                   ELSE Val(enforce_hard_limit)
        token_count ==
            IF DOMAIN tool_sizes # {}
            THEN sum_over([name \in DOMAIN tools |->
                             IF name \in DOMAIN tool_sizes THEN tool_sizes[name] ELSE 0],
                          DOMAIN tools)
            ELSE serialized_list_len(tools) \div 4
    IN  IF token_count > HardLimit /\ enforce
        THEN [raised |-> TRUE, token_count |-> token_count]
        ELSE [raised |-> FALSE, token_count |-> token_count]

----------------------------------------------------------------------------
(* intent_classifier.py: KeywordIntentClassifier *)

default_keywords == <<
    [task_type |-> "user-ops", keywords |-> <<"user", "account", "permission", "login", "ssh">>],
    [task_type |-> "storage-ops",
     keywords |-> <<"pool", "zfs", "dataset", "volume", "quota", "replication", "disk">>],
    [task_type |-> "sharing-ops", keywords |-> <<"smb", "cifs", "nfs", "share", "iscsi", "afp">>],
    [task_type |-> "snapshot-ops", keywords |-> <<"snapshot", "rollback", "clone", "replica">>],
    [task_type |-> "apps-ops", keywords |-> <<"app", "chart", "helm", "docker", "compose">>],
    [task_type |-> "instance-ops", keywords |-> <<"incus", "vm", "virtual", "guest">>],
    [task_type |-> "vm-ops", keywords |-> <<"bhyve", "legacy vm", "virt">>],
    [task_type |-> "debug-ops", keywords |-> <<"debug", "diagnostic", "trace">>],
    [task_type |-> "meta-ops", keywords |-> <<"tool", "metadata", "list tools">>] >>

\* __init__: keyword_mappings or self._default_keywords(); the dict is a
\* sequence of [task_type, keywords] in insertion order
KeywordIntentClassifier(keyword_overrides) ==
    IF keyword_overrides # None /\ Len(Val(keyword_overrides)) > 0 THEN Val(keyword_overrides)
    ELSE default_keywords

RECURSIVE classify_from(_, _)
classify_from_nothing(mappings, lowered) == <<>>

classify_from(mappings, lowered) ==
    IF Len(mappings) = 0 THEN <<>>
    ELSE LET m == Head(mappings)
             hit == \E i \in DOMAIN m.keywords : str_contains(lowered, m.keywords[i])
         IN  (IF hit THEN <<m.task_type>> ELSE <<>>) \o classify_from(Tail(mappings), lowered)

classify_intent(query) == classify_from(keyword_mappings, str_lower(query))

----------------------------------------------------------------------------
(* tool_registry.py: TrueNASToolRegistry *)

TASK_TYPE_MAP ==
    [UserTools |-> <<"user-ops">>, StorageTools |-> <<"storage-ops">>,
     SharingTools |-> <<"sharing-ops">>, SnapshotTools |-> <<"snapshot-ops">>,
     AppTools |-> <<"apps-ops">>, InstanceTools |-> <<"instance-ops">>,
     LegacyVMTools |-> <<"vm-ops">>, DebugTools |-> <<"debug-ops">>]

\* a parameter of a tool definition: its name and its meta dict, of which
\* the definitions use the keys type, required and description
Param(name, type, required, description) ==
    [name |-> name, meta |-> [type |-> type, required |-> required,
                              description |-> description]]

\* _build_input_schema: params is the dict of a definition in insertion
\* order; properties and required keep that order
RECURSIVE required_params(_)
required_params(params) ==
    IF Len(params) = 0 THEN <<>>
    ELSE (IF Head(params).meta.required THEN <<Head(params).name>> ELSE <<>>)
         \o required_params(Tail(params))

build_input_schema(params) ==
    [type |-> "object",
     properties |-> [i \in DOMAIN params |->
                       [name |-> params[i].name,
                        schema |-> [type |-> params[i].meta.type,
                                    description |-> params[i].meta.description]]],
     required |-> required_params(params)]

\* _load_tools: tool_instances is a list of [class_name, definitions], a
\* definition is [name, description, param_schema]; the handler of a tool
\* is registered under the same name.
RECURSIVE load_definitions(_, _, _)
load_definitions(definitions, task_types, acc) ==
    IF Len(definitions) = 0 THEN acc
    ELSE LET d == Head(definitions)
             tool_meta == Tool(d.name, d.description, task_types, 0, Some(task_types),
                               Some(build_input_schema(d.param_schema)))
         IN  load_definitions(Tail(definitions), task_types,
                [n \in (DOMAIN acc) \cup {d.name} |-> IF n = d.name THEN tool_meta ELSE acc[n]])

RECURSIVE load_tools(_, _)
load_tools(tool_instances, acc) ==
    IF Len(tool_instances) = 0 THEN acc
    ELSE LET tool == Head(tool_instances)
             task_types == IF tool.class_name \in DOMAIN TASK_TYPE_MAP
                           THEN TASK_TYPE_MAP[tool.class_name] ELSE <<"truenas-ops">>
         IN  load_tools(Tail(tool_instances), load_definitions(tool.definitions, task_types, acc))

\* TrueNASToolRegistry.get_all_tools / get_handler read the registry the
\* gate controller was built from (lifespan, http_server.py:48-50)
get_all_tools == all_tools
get_handler(tool_name) == IF tool_name \in DOMAIN all_tools THEN Some(tool_name) ELSE None

----------------------------------------------------------------------------
(* http_server.py: configuration loaded by lifespan *)

DefaultMaxTools == 12

\* int(s) of a str of decimal digits
Digits == "0123456789"
DigitValue(c) == (CHOOSE i \in 1..Len(Digits) : Ch(Digits, i) = c) - 1

RECURSIVE int_of(_)
int_of(s) ==
    IF Len(s) = 0 THEN 0
    ELSE 10 * int_of(SubSeq(s, 1, Len(s) - 1)) + DigitValue(Ch(s, Len(s)))

\* HttpServerSettings.__init__: the settings gating reads; mcp_max_tools is
\* the environment variable MCP_MAX_TOOLS, None when it is unset
HttpServerSettings(enabled, fallback, precedence, strict, mcp_max_tools) ==
    [intent_classification_enabled |-> enabled, intent_fallback_to_all |-> fallback,
     intent_precedence |-> precedence, strict_context_limit |-> strict,
     default_max_tools |-> IF mcp_max_tools = None THEN DefaultMaxTools
                           ELSE int_of(Val(mcp_max_tools))]

\* _build_default_allowlists: allowlists.setdefault(task_type, []).append(name)
\* for every task type of every tool, in registration order
allowlists_append(acc, task_type, name) ==
    LET at == {i \in DOMAIN acc : acc[i].key = task_type}
    IN  IF at = {} THEN Append(acc, [key |-> task_type, tools |-> {name}])
        ELSE [i \in DOMAIN acc |->
                 IF i \in at THEN [key |-> task_type, tools |-> acc[i].tools \cup {name}]
                 ELSE acc[i]]

RECURSIVE allowlists_append_all(_, _, _)
allowlists_append_all(acc, task_types, name) ==
    IF Len(task_types) = 0 THEN acc
    ELSE allowlists_append_all(allowlists_append(acc, Head(task_types), name),
                               Tail(task_types), name)

RECURSIVE default_allowlists_from(_, _, _)
default_allowlists_from(order, tools, acc) ==
    IF Len(order) = 0 THEN acc
    ELSE default_allowlists_from(Tail(order), tools,
            allowlists_append_all(acc, tools[Head(order)].task_types, Head(order)))

build_default_allowlists(order, tools) == default_allowlists_from(order, tools, <<>>)

\* _load_filter_config: data is None when filter-config.json is absent or is
\* no JSON, else Some(dict); a missing or falsy entry takes the default.
load_filter_config(data, settings, order, tools) ==
    LET defaults == build_default_allowlists(order, tools)
    IN  IF data = None
        THEN [task_type_allowlists |-> defaults, max_tools |-> settings.default_max_tools,
              blocklist |-> {}, intent_keywords |-> None]
        ELSE LET d == Val(data)
             IN  [task_type_allowlists |->
                      IF "task_type_allowlists" \in DOMAIN d /\ Len(d.task_type_allowlists) > 0
                      THEN d.task_type_allowlists ELSE defaults,
                  max_tools |-> IF "max_tools" \in DOMAIN d /\ d.max_tools # 0
                                THEN d.max_tools ELSE settings.default_max_tools,
                  blocklist |-> IF "blocklist" \in DOMAIN d THEN d.blocklist ELSE {},
                  intent_keywords |-> IF "intent_keywords" \in DOMAIN d
                                      THEN Some(d.intent_keywords) ELSE None]

----------------------------------------------------------------------------
(* The deployments explored *)

\* tools/storage.py: StorageTools.get_tool_definitions()
LimitParam == Param("limit", "integer", FALSE,
                    Some("Max items to return (default: 100, max: 500)"))
OffsetParam == Param("offset", "integer", FALSE, Some("Items to skip for pagination"))
IncludeChildrenParam ==
    Param("include_children", "boolean", FALSE,
          Some("Include child datasets in response (default: true)"))

StorageToolDefinitions == <<
    [name |-> "list_pools", description |-> "List all storage pools",
     param_schema |-> <<LimitParam, OffsetParam>>],
    [name |-> "get_pool", description |-> "Get a single pool by name",
     param_schema |-> <<Param("pool_name", "string", TRUE, None)>>],
    [name |-> "get_pool_status", description |-> "Get detailed status of a specific pool",
     param_schema |-> <<Param("pool_name", "string", TRUE, None)>>],
    [name |-> "list_datasets", description |-> "List all datasets",
     param_schema |-> <<LimitParam, OffsetParam, IncludeChildrenParam,
                        Param("pool_name", "string", FALSE, Some("Filter datasets by pool"))>>],
    [name |-> "get_dataset", description |-> "Get detailed information about a dataset",
     param_schema |-> <<Param("dataset", "string", TRUE, None), IncludeChildrenParam>>],
    [name |-> "create_dataset", description |-> "Create a new dataset",
     param_schema |-> <<Param("pool_name", "string", TRUE, None),
                        Param("dataset_name", "string", TRUE, None),
                        Param("compression", "string", FALSE, None),
                        Param("quota", "string", FALSE, None),
                        Param("recordsize", "string", FALSE, None)>>],
    [name |-> "delete_dataset", description |-> "Delete a dataset",
     param_schema |-> <<Param("dataset", "string", TRUE, None),
                        Param("recursive", "boolean", FALSE, None)>>],
    [name |-> "update_dataset", description |-> "Update dataset properties",
     param_schema |-> <<Param("dataset", "string", TRUE, None),
                        Param("properties", "object", TRUE, None)>>],
    [name |-> "set_quota", description |-> "Set a quota on a dataset",
     param_schema |-> <<Param("dataset_id", "string", TRUE, None),
                        Param("quota", "string", TRUE, None),
                        Param("hard", "boolean", FALSE, None)>>] >>

\* the tool_instances the registry is built from (TrueNASMCPServer.tools):
\* StorageTools, and two classes whose source is not in the tree, one of
\* another task type and one TASK_TYPE_MAP does not name, with one tool each
ToolInstances == <<
    [class_name |-> "StorageTools", definitions |-> StorageToolDefinitions],
    [class_name |-> "UserTools",
     definitions |-> <<
        [name |-> "create_user", description |-> "Create a new user",
         param_schema |-> <<Param("username", "string", TRUE, None)>>] >>],
    [class_name |-> "SystemTools",
     definitions |-> <<
        [name |-> "system_info", description |-> "Get system information",
         param_schema |-> <<>>] >>] >>

\* the same with a further class whose definitions carry long descriptions
\* (16003 and 15200 characters serialized) and which defines system_info again
VerboseToolInstances ==
    ToolInstances \o <<
    [class_name |-> "DebugTools",
     definitions |-> <<
        [name |-> "collect_debug", description |-> str_repeat_x(15721),
         param_schema |-> <<>>],
        [name |-> "debug_trace", description |-> str_repeat_x(14886),
         param_schema |-> <<Param("target", "string", TRUE, None)>>],
        [name |-> "system_info", description |-> "Get system information for a debug bundle",
         param_schema |-> <<>>] >>] >>

\* the names in the order _load_tools assigns self._tools[name]
RECURSIVE definition_names(_)
definition_names(tool_instances) ==
    IF Len(tool_instances) = 0 THEN <<>>
    ELSE [i \in DOMAIN Head(tool_instances).definitions |->
             Head(tool_instances).definitions[i].name]
         \o definition_names(Tail(tool_instances))

\* a dict keeps a key at the position of its first assignment
RECURSIVE first_assignments(_, _)
first_assignments(names, acc) ==
    IF Len(names) = 0 THEN acc
    ELSE first_assignments(Tail(names),
            IF Head(names) \in Range(acc) THEN acc ELSE Append(acc, Head(names)))

\* list(self._tools): the key order of the registry dict, which
\* _build_default_allowlists iterates
registration_order(tool_instances) == first_assignments(definition_names(tool_instances), <<>>)

\* contents of filter-config.json
ConfigScenario ==
    [task_type_allowlists |-> <<[key |-> "storage-ops", tools |-> {"list_pools", "get_pool"}],
                                [key |-> "user-ops", tools |-> {"create_user"}]>>,
     max_tools |-> 10,
     blocklist |-> {}]

ConfigMixed ==
    [task_type_allowlists |-> <<[key |-> " Storage-Ops ",
                                 tools |-> {"list_pools", "get_pool", "create_user", "pool_help"}],
                                [key |-> "user-ops", tools |-> {}],
                                [key |-> "META-OPS", tools |-> {"list_tools", "pool_help"}]>>,
     max_tools |-> 2,
     blocklist |-> {"get_pool"}]

\* keys that are alias candidates of other keys, and keys that share one
ConfigShadow ==
    [task_type_allowlists |-> <<[key |-> "storage-ops", tools |-> {"list_pools", "pool_help"}],
                                [key |-> "Storage", tools |-> {"get_pool"}],
                                [key |-> "user_ops", tools |-> {"create_user"}],
                                [key |-> "user-ops", tools |-> {}],
                                [key |-> "  ", tools |-> {"list_tools"}]>>,
     max_tools |-> 3,
     blocklist |-> {"create_user", "no_such_tool"}]

ConfigFiles == {None, Some(ConfigScenario), Some(ConfigMixed), Some(ConfigShadow)}

\* a filter-config.json that overrides the classifier's keywords and leaves
\* max_tools and the blocklist to their defaults
ConfigKeywords ==
    [task_type_allowlists |-> <<[key |-> "storage-ops", tools |-> {"list_pools", "get_pool"}],
                                [key |-> "user-ops", tools |-> {"create_user"}]>>,
     intent_keywords |-> <<[task_type |-> "storage-ops", keywords |-> <<"tank">>],
                           [task_type |-> "user-ops", keywords |-> <<"pool">>]>>]

\* values of MCP_MAX_TOOLS: unset, or a cap below the size of the registry
McpMaxToolsEnv == {None, Some("2")}

AllSettings ==
    {HttpServerSettings(e, f, p, s, m) :
        e \in BOOLEAN, f \in BOOLEAN, p \in {"intent", "explicit"}, s \in BOOLEAN,
        m \in McpMaxToolsEnv}

\* state after lifespan() built the registry, the gate controller, the
\* classifier and the handler
Construct(settings, data, tool_instances) ==
    LET tools == load_tools(tool_instances, <<>>)
        config == load_filter_config(data, settings, registration_order(tool_instances), tools)
        expanded == expand_allowlists(config.task_type_allowlists)
    IN  /\ http_settings = settings
        /\ keyword_mappings = KeywordIntentClassifier(config.intent_keywords)
        /\ all_tools = tools
        /\ task_type_allowlists = expanded.normalized
        /\ alias_map = expanded.alias_map
        /\ max_tools = IF config.max_tools # 0 THEN config.max_tools
                       ELSE settings.default_max_tools
        /\ blocklist = config.blocklist
        /\ tool_sizes = precompute_tool_sizes(tools)
        /\ session_tools = <<>>
        /\ inflight = EmptyBag
        /\ req = None
        /\ resp = None
        /\ last_list = <<>>
        /\ overwrote = FALSE
        /\ fin = None
        /\ fout = None

----------------------------------------------------------------------------
(* jsonrpc_models.py *)

PARSE_ERROR == -32700
INVALID_REQUEST == -32600
METHOD_NOT_FOUND == -32601
INVALID_PARAMS == -32602
INTERNAL_ERROR == -32603

\* JSONRPCError.create_error(code, message, data): the data member is set
\* when data is not None
create_error(code, message, data) ==
    IF data = None THEN [code |-> code, message |-> message]
    ELSE [code |-> code, message |-> message, data |-> Val(data)]

\* what mcp_endpoint returns: serialize_response(JSONRPCResponse(id, result)),
\* serialize_response(JSONRPCResponse(id, error)), or Response(content="")
ResultResponse(id, result) == [kind |-> "result", id |-> id, result |-> result]
ErrorResponse(id, error) == [kind |-> "error", id |-> id, error |-> error]
EmptyResponse == [kind |-> "empty"]
\* the request is suspended in `await _invoke_handler(handler, arguments)`
AwaitingHandler(tool_name) == [kind |-> "awaiting_handler", handler |-> tool_name]

\* the value a handler returns and the exception it raises are handler-internal
HandlerResult == "<handler result>"
HandlerException == "<handler exception>"

----------------------------------------------------------------------------
(* mcp_server.py: TrueNASHTTPMCP.handle_tools_list *)

\* dict.get(key) of an Optional dict after `params or {}`
params_get(params, key) ==
    IF params # None /\ key \in DOMAIN Val(params) THEN Some(Val(params)[key]) ELSE None

\* lines 68-99: the FilterContext of a tools/list and its classification_method
list_context(params, task_type_header) ==
    LET task_type == IF TruthyStr(task_type_header) THEN task_type_header
                     ELSE params_get(params, "task_type")
        query == params_get(params, "query")
    IN  IF TruthyStr(query) /\ http_settings.intent_classification_enabled
        THEN [context |-> FilterContext(
                            IF http_settings.intent_precedence = "intent" THEN None
                            ELSE task_type,
                            query, Some(classify_intent(Val(query)))),
              classification_method |-> "intent"]
        ELSE [context |-> FilterContext(task_type, query, None),
              classification_method |-> IF TruthyStr(task_type) THEN "explicit" ELSE "none"]

\* tool.required_scopes or tool.task_types
scopes_of(tool) ==
    IF TruthyList(tool.required_scopes) THEN Val(tool.required_scopes) ELSE tool.task_types

\* scopes and "admin" not in scopes
scope_restricted(scopes) == scopes # {} /\ "admin" \notin scopes

\* any(scope in scopes for scope in (tool.required_scopes or tool.task_types))
scope_overlap(scopes, tool) == \E i \in DOMAIN scopes_of(tool) : scopes_of(tool)[i] \in scopes

\* lines 104-110
scope_filter_keeps_all(tools, filters_applied, scopes) ==
    IF scope_restricted(scopes)
    THEN [tools |-> tools, filters_applied |-> Append(filters_applied, "ScopeFilter")]
    ELSE [tools |-> tools, filters_applied |-> filters_applied]

scope_filter_without_admin_bypass(tools, filters_applied, scopes) ==
    IF scopes # {}
    THEN [tools |-> Restrict(tools, {name \in DOMAIN tools : scope_overlap(scopes, tools[name])}),
          filters_applied |-> Append(filters_applied, "ScopeFilter")]
    ELSE [tools |-> tools, filters_applied |-> filters_applied]

scope_filter(tools, filters_applied, scopes) ==
    IF scope_restricted(scopes)
    THEN [tools |-> Restrict(tools, {name \in DOMAIN tools : scope_overlap(scopes, tools[name])}),
          filters_applied |-> Append(filters_applied, "ScopeFilter")]
    ELSE [tools |-> tools, filters_applied |-> filters_applied]

default_input_schema == [type |-> "object", properties |-> <<>>, required |-> <<>>]

budget_error_message(token_count) ==
    "Context size " \o ToString(token_count) \o " tokens exceeds hard limit of 7600 tokens. "
    \o "Reduce tool count or enable stricter filtering."

\* line 112 with the new set merged into the entry the session has
store_session_tools_merging(session_id, filtered_tools) ==
    [sid \in (DOMAIN session_tools) \cup {session_id} |->
        IF sid # session_id THEN session_tools[sid]
        ELSE IF session_id \notin DOMAIN session_tools THEN filtered_tools
        ELSE [n \in (DOMAIN session_tools[session_id]) \cup (DOMAIN filtered_tools) |->
                IF n \in DOMAIN filtered_tools THEN filtered_tools[n]
                ELSE session_tools[session_id][n]]]

\* line 112: self.session_tools[session_id] = filtered_tools.copy()
store_session_tools_evicting(session_id, filtered_tools) ==
    [sid \in {session_id} |-> filtered_tools]

store_session_tools(session_id, filtered_tools) ==
    [sid \in (DOMAIN session_tools) \cup {session_id} |->
        IF sid = session_id THEN filtered_tools ELSE session_tools[sid]]

\* lines 116-139: the ValueError get_context_size raised out of the handler,
\* or the result returned; with the session cache line 112 left behind
tools_list_outcome(lc, scoped, cache, context_size) ==
    IF context_size.raised
    THEN [session_tools |-> cache, raised |-> TRUE,
          exc |-> budget_error_message(context_size.token_count)]
    ELSE [session_tools |-> cache, raised |-> FALSE,
          result |->
            [tools |-> {[name |-> scoped.tools[n].name,
                         description |-> scoped.tools[n].description,
                         inputSchema |-> IF scoped.tools[n].request_schema # None
                                         THEN Val(scoped.tools[n].request_schema)
                                         ELSE default_input_schema] :
                        n \in DOMAIN scoped.tools},
             _metadata |-> [context_size |-> context_size.token_count,
                           filters_applied |-> scoped.filters_applied,
                           classification_method |-> lc.classification_method,
                           query |-> lc.context.query,
                           detected_task_types |-> lc.context.detected_task_types]]]

\* lines 112-114: the cache write, then the context size of the filtered set
tools_list_store(lc, scoped, session_id) ==
    tools_list_outcome(lc, scoped, store_session_tools(session_id, scoped.tools),
                       get_context_size(scoped.tools, None))

\* lines 101-110: the gate's result, scope-filtered
tools_list_gate(lc, gate, session_id, scopes) ==
    tools_list_store(lc, scope_filter(gate.tools, gate.filters_applied, scopes), session_id)

tools_list_filter(lc, session_id, scopes) ==
    tools_list_gate(lc, get_available_tools(lc.context), session_id, scopes)

\* The whole handler: the session cache it leaves behind, and either the
\* result it returns or the ValueError that get_context_size raises out of it.
handle_tools_list(params, session_id, scopes, task_type_header) ==
    tools_list_filter(list_context(params, task_type_header), session_id, scopes)

----------------------------------------------------------------------------
(* mcp_server.py: TrueNASHTTPMCP.handle_tools_call *)

\* a JSON value of the arguments object, with its JSON type
JStr(v) == [type |-> "string", value |-> v]
JInt(v) == [type |-> "integer", value |-> v]

\* repr(v) of the value, as a ValidationError message shows it
py_repr(v) == IF v.type = "string" THEN "'" \o v.value \o "'" ELSE ToString(v.value)

\* the value is of the JSON Schema type
is_type(v, type) == v.type = type \/ (type = "number" /\ v.type = "integer")

\* ValidationError(message) raised at absolute_path
ValidationError(message, absolute_path) ==
    [message |-> message, absolute_path |-> absolute_path]

\* the first required property the arguments lack
RECURSIVE missing_required(_, _)
missing_required(arguments, required) ==
    IF Len(required) = 0 THEN None
    ELSE IF Head(required) \notin DOMAIN arguments
    THEN Some(ValidationError("'" \o Head(required) \o "' is a required property", <<>>))
    ELSE missing_required(arguments, Tail(required))

\* the first declared property, in the order of the schema, whose value is
\* not of its type
RECURSIVE mistyped_property(_, _)
mistyped_property(arguments, properties) ==
    IF Len(properties) = 0 THEN None
    ELSE IF /\ Head(properties).name \in DOMAIN arguments
            /\ ~is_type(arguments[Head(properties).name], Head(properties).schema.type)
    THEN Some(ValidationError(py_repr(arguments[Head(properties).name])
                              \o " is not of type '" \o Head(properties).schema.type \o "'",
                              <<Head(properties).name>>))
    ELSE mistyped_property(arguments, Tail(properties))

\* jsonschema.validate(instance=arguments, schema): None when it returns, else
\* the ValidationError it raises, the best match of the errors (arguments is
\* an object): an error at the root, a missing required property, before an
\* error below it, and among those the first found
validation_error(arguments, schema) ==
    IF missing_required(arguments, schema.required) # None
    THEN missing_required(arguments, schema.required)
    ELSE mistyped_property(arguments, schema.properties)

\* lines 225-232
invalid_parameters(exc) ==
    create_error(INVALID_PARAMS, "Invalid parameters: " \o exc.message,
                 Some([path |-> exc.absolute_path]))

\* line 201: self.session_tools.get(session_id) or self.tool_registry.get_all_tools()
session_filtered_of_cache_only(session_id) ==
    IF session_id \in DOMAIN session_tools THEN session_tools[session_id] ELSE <<>>

session_filtered_of(session_id) ==
    IF session_id \in DOMAIN session_tools /\ DOMAIN session_tools[session_id] # {}
    THEN session_tools[session_id]
    ELSE get_all_tools

not_available_message(tool_name) ==
    "Tool '" \o tool_name \o "' not available or blocked by gating"

insufficient_permissions_message(required_scopes) ==
    "Insufficient permissions. Required scopes: " \o list_repr(required_scopes)

\* lines 213-220 then 222-241, for a tool found in the session's set
call_checks_schema_first(tool_name, tool_meta, arguments, scopes) ==
    IF tool_meta.request_schema # None
       /\ validation_error(arguments, Val(tool_meta.request_schema)) # None
    THEN [error |-> Some(invalid_parameters(
                            Val(validation_error(arguments, Val(tool_meta.request_schema)))))]
    ELSE IF scope_restricted(scopes) /\ ~scope_overlap(scopes, tool_meta)
    THEN [error |-> Some(create_error(METHOD_NOT_FOUND,
                            insufficient_permissions_message(scopes_of(tool_meta)), None))]
    ELSE [error |-> None, handler |-> Val(get_handler(tool_name)), tool_meta |-> tool_meta]

call_checks_without_scope_check(tool_name, tool_meta, arguments, scopes) ==
    IF tool_meta.request_schema # None
       /\ validation_error(arguments, Val(tool_meta.request_schema)) # None
    THEN [error |-> Some(invalid_parameters(
                            Val(validation_error(arguments, Val(tool_meta.request_schema)))))]
    ELSE IF get_handler(tool_name) = None
    THEN [error |-> Some(create_error(METHOD_NOT_FOUND,
                            "Handler for '" \o tool_name \o "' not found", None))]
    ELSE [error |-> None, handler |-> Val(get_handler(tool_name)), tool_meta |-> tool_meta]

call_checks(tool_name, tool_meta, arguments, scopes) ==
    IF scope_restricted(scopes) /\ ~scope_overlap(scopes, tool_meta)
    THEN [error |-> Some(create_error(METHOD_NOT_FOUND,
                            insufficient_permissions_message(scopes_of(tool_meta)), None))]
    ELSE IF tool_meta.request_schema # None
            /\ validation_error(arguments, Val(tool_meta.request_schema)) # None
    THEN [error |-> Some(invalid_parameters(
                            Val(validation_error(arguments, Val(tool_meta.request_schema)))))]
    ELSE IF get_handler(tool_name) = None
    THEN [error |-> Some(create_error(METHOD_NOT_FOUND,
                            "Handler for '" \o tool_name \o "' not found", None))]
    ELSE [error |-> None, handler |-> Val(get_handler(tool_name)), tool_meta |-> tool_meta]

\* lines 191-241: the error the handler returns before dispatch, or the
\* handler it goes on to invoke
handle_tools_call(params, session_id, scopes) ==
    IF params = None \/ DOMAIN Val(params) = {} \/ "name" \notin DOMAIN Val(params)
    THEN [error |-> Some(create_error(INVALID_PARAMS, "Missing 'name' parameter", None))]
    ELSE LET tool_name == Val(params).name
             arguments == IF "arguments" \in DOMAIN Val(params) THEN Val(params).arguments
                          ELSE <<>>
             session_filtered == session_filtered_of(session_id)
         IN  IF tool_name \notin DOMAIN session_filtered
             THEN [error |-> Some(create_error(METHOD_NOT_FOUND,
                                               not_available_message(tool_name), None))]
             ELSE call_checks(tool_name, session_filtered[tool_name], arguments, scopes)

----------------------------------------------------------------------------
(* mcp_server.py: handle_initialize, handle_prompts_list, handle_prompts_get *)

\* the __version__ of the package, which lifespan hands to TrueNASHTTPMCP
server_version == "<__version__>"

handle_initialize ==
    [protocolVersion |-> "2024-11-05",
     capabilities |-> [tools |-> [gating |-> TRUE, context_size_enforcement |-> TRUE,
                                  task_type_filtering |-> TRUE],
                       prompts |-> [listChanged |-> FALSE]],
     serverInfo |-> [name |-> "truenas-mcp-server", version |-> server_version]]

handle_prompts_list ==
    [prompts |-> <<[name |-> "intent-query-help",
                    description |-> "How to use natural language queries for task routing"]>>]

\* str(v) of an Optional[str], as an f-string formats it
str_of(o) == IF o = None THEN "None" ELSE Val(o)

handle_prompts_get(params) ==
    IF params_get(params, "name") # Some("intent-query-help")
    THEN [error |-> Some(create_error(INVALID_PARAMS,
                            "Unknown prompt name: " \o str_of(params_get(params, "name")),
                            None))]
    ELSE [error |-> None,
          result |->
            [description |-> "Guide to using natural language queries",
             messages |-> <<
                [role |-> "user",
                 content |->
                    [type |-> "text",
                     text |-> "You can supply a natural language query in tools/list params. "
                              \o "The server will classify it into task types for you."]] >>]]

----------------------------------------------------------------------------
(* Filter harness: the filters applied to arbitrary tool sets and contexts, *)
(* as the unit tests do (tests/unit/test_tool_gating.py)                    *)

NumFilterTools == 4

\* _make_tool of the unit tests
make_tool(name, task_types) ==
    Tool(name, name \o " description", task_types, 0, None, None)

FilterToolUniverse == <<
    make_tool("list_pools", <<"storage-ops">>),
    make_tool("create_user", <<"user-ops">>),
    make_tool("list_tools", <<"meta-ops">>),
    make_tool("pool_help", <<"storage-ops", "meta-ops">>),
    make_tool("get_pool", <<"storage-ops">>) >>

FilterToolNames == {FilterToolUniverse[i].name : i \in 1..NumFilterTools}

FilterToolSets ==
    {[n \in names |-> FilterToolUniverse[CHOOSE i \in 1..NumFilterTools :
                                            FilterToolUniverse[i].name = n]] :
        names \in SUBSET FilterToolNames}

DetectedLists == {<<>>, <<"storage-ops">>, <<"user-ops", "storage-ops">>, <<"bogus">>,
                  <<"bogus", "USER-OPS">>}

FilterContexts ==
    {FilterContext(t, q, d) :
        t \in {None, Some(""), Some("storage-ops"), Some("storage"), Some("User_Ops "),
               Some("bogus")},
        q \in {None, Some(""), Some("xyz-no-match")},
        d \in {None} \cup {Some(l) : l \in DetectedLists}}

\* the filters do not read intent_classification_enabled
FilterInit ==
    \E settings \in {x \in AllSettings : /\ x.intent_classification_enabled
                                         /\ x.default_max_tools = DefaultMaxTools},
       data \in ConfigFiles : Construct(settings, data, ToolInstances)

\* one application per behaviour, to the inputs drawn
ApplyTaskTypeFilter ==
    /\ fin = None
    /\ \E tools \in FilterToolSets, context \in FilterContexts :
          /\ fin' = Some([filter |-> "TaskTypeFilter", tools |-> tools, context |-> context])
          /\ fout' = Some(TaskTypeFilter_apply(tools, context))
    /\ UNCHANGED <<constVars, serverVars>>

\* task-type labels as a header, a parameter or the classifier supplies them
TaskTypeLabels ==
    {"storage-ops", " STORAGE-OPS ", "Storage", "STORAGE_OPS", "StorageOps", "user-ops",
     "User_Ops ", "USEROPS", "user", "META", "meta_ops", "Truenas", "bogus", "  ",
     "\fstorage\f", "\f", "sto rage"}

ApplyNormalizeTaskTypes ==
    /\ fin = None
    /\ \E label \in TaskTypeLabels :
          /\ fin' = Some([filter |-> "_normalize_task_types", task_types |-> <<label>>])
          /\ fout' = Some(normalize_task_types(<<label>>))
    /\ UNCHANGED <<constVars, serverVars>>

FilterNext ==
    \/ ApplyTaskTypeFilter
    \/ ApplyNormalizeTaskTypes

FilterSpec == FilterInit /\ [][FilterNext]_vars

----------------------------------------------------------------------------
(* Gate harness: a ToolGateController built from a catalog and a FilterConfig, *)
(* its filters and its methods applied once to the inputs drawn                *)

NumGateTools == 5
MaxToolsCap == 4

\* a Tool as the unit tests make it, with a priority and a description of
\* description_len characters
gate_tool(name, task_types, priority, description_len) ==
    Tool(name, str_repeat_x(description_len), task_types, priority, None, None)

\* priorities 3, 1, 3, 0, 2 with a tie between list_pools and get_pool;
\* serialized lengths 15200, 220, 14987, 10183, 4800 and 403 characters, that
\* is sizes of 3800, 55, 3746, 2545, 1200 and 100 tokens (length // 4)
GateToolUniverse == <<
    gate_tool("list_pools", <<"storage-ops">>, 3, 14979),
    gate_tool("create_user", <<"user-ops">>, 1, 0),
    gate_tool("get_pool", <<"storage-ops">>, 3, 14770),
    gate_tool("system_info", <<"truenas-ops">>, 0, 9960),
    gate_tool("list_tools", <<"meta-ops">>, 2, 4582),
    gate_tool("pool_help", <<"storage-ops", "meta-ops">>, 1, 172) >>

GateToolNames == {GateToolUniverse[i].name : i \in 1..NumGateTools}

GateTools(names) ==
    [n \in names |-> GateToolUniverse[CHOOSE i \in 1..NumGateTools :
                                          GateToolUniverse[i].name = n]]

GateToolSets == {GateTools(names) : names \in SUBSET GateToolNames}

GateCatalogs == {GateTools(GateToolNames), GateTools({"list_pools", "create_user"}),
                 GateTools({})}

FilterConfig(allowlists, cap, blocked) ==
    [task_type_allowlists |-> allowlists, max_tools |-> cap, blocklist |-> blocked]

GateAllowlists ==
    <<[key |-> "storage-ops", tools |-> {"list_pools", "get_pool", "pool_help"}],
      [key |-> "user-ops", tools |-> {"create_user"}],
      [key |-> "meta-ops", tools |-> {"list_tools", "pool_help"}]>>

GateBlocklists == {{}, {"get_pool"}, {"list_pools", "create_user", "no_such_tool"}}

GateConfigs ==
    {FilterConfig(GateAllowlists, cap, blocked) :
        cap \in 0..MaxToolsCap, blocked \in GateBlocklists}

GateContexts ==
    {FilterContext(t, q, d) :
        t \in {None, Some("storage"), Some("user-ops"), Some("bogus")},
        q \in {None, Some("xyz-no-match")},
        d \in {None, Some(<<>>), Some(<<"user-ops", "storage-ops">>)}}

\* ToolGateController.__init__, with the filters' constructors
ToolGateController_init(settings, tools, config) ==
    /\ http_settings = settings
    /\ all_tools = tools
    /\ \E expanded \in {expand_allowlists(config.task_type_allowlists)} :
          /\ task_type_allowlists = expanded.normalized
          /\ alias_map = expanded.alias_map
    /\ max_tools = IF config.max_tools # 0 THEN config.max_tools
                   ELSE settings.default_max_tools
    /\ blocklist = config.blocklist
    /\ tool_sizes = precompute_tool_sizes(tools)
    /\ keyword_mappings = KeywordIntentClassifier(None)

GateInit ==
    /\ \E settings \in {x \in AllSettings : x.intent_classification_enabled},
          tools \in GateCatalogs, config \in GateConfigs :
            ToolGateController_init(settings, tools, config)
    /\ session_tools = <<>>
    /\ inflight = EmptyBag
    /\ req = None
    /\ resp = None
    /\ last_list = <<>>
    /\ overwrote = FALSE
    /\ fin = None
    /\ fout = None

ApplyResourceFilter ==
    /\ fin = None
    /\ \E tools \in GateToolSets :
          /\ fin' = Some([filter |-> "ResourceFilter", tools |-> tools])
          /\ fout' = Some(ResourceFilter_apply(tools, FilterContext(None, None, None)))
    /\ UNCHANGED <<constVars, serverVars>>

ApplySecurityFilter ==
    /\ fin = None
    /\ \E tools \in GateToolSets :
          /\ fin' = Some([filter |-> "SecurityFilter", tools |-> tools])
          /\ fout' = Some(SecurityFilter_apply(tools, FilterContext(None, None, None)))
    /\ UNCHANGED <<constVars, serverVars>>

GetAvailableTools ==
    /\ fin = None
    /\ \E context \in GateContexts :
          /\ fin' = Some([filter |-> "get_available_tools", context |-> context])
          /\ fout' = Some(get_available_tools(context))
    /\ UNCHANGED <<constVars, serverVars>>

\* get_context_size of a set of catalog tools, as handle_tools_list calls it
\* (enforce_hard_limit not given) or with the flag forced
GetContextSize ==
    /\ fin = None
    /\ \E names \in SUBSET DOMAIN all_tools,
          enforce_hard_limit \in {None, Some(TRUE), Some(FALSE)} :
          /\ fin' = Some([filter |-> "get_context_size",
                          tools |-> Restrict(all_tools, names),
                          enforce_hard_limit |-> enforce_hard_limit])
          /\ fout' = Some(get_context_size(Restrict(all_tools, names), enforce_hard_limit))
    /\ UNCHANGED <<constVars, serverVars>>

GateNext ==
    \/ ApplyResourceFilter
    \/ ApplySecurityFilter
    \/ GetAvailableTools
    \/ GetContextSize

GateSpec == GateInit /\ [][GateNext]_vars

----------------------------------------------------------------------------
(* http_server.py: mcp_endpoint, one action per JSON-RPC method *)

NumClients == 3
MaxInflight == 1

\* callers: the session id (X-Session-ID, or derived from the token) and the
\* scope set verify_token_with_scopes resolved for the token
ClientList == <<
    [session_id |-> "session-1", scopes |-> {"admin"}],
    [session_id |-> "session-1", scopes |-> {"storage-ops"}],
    [session_id |-> "session-2", scopes |-> {}],
    [session_id |-> "session-2", scopes |-> {"user-ops"}] >>

Clients == {ClientList[i] : i \in 1..NumClients}

\* JSONRPCRequest of a tools/list or tools/call, plus what mcp_endpoint hands
\* to their handlers: the session id, the scopes and the X-Task-Type header
Request(method, id, client, x_task_type, params) ==
    [method |-> method, id |-> id, session_id |-> client.session_id,
     scopes |-> client.scopes, x_task_type |-> x_task_type, params |-> params]

\* JSONRPCRequest of the methods whose handling reads neither session nor scopes
ProtocolRequest(method, id, params) == [method |-> method, id |-> id, params |-> params]

\* X-Task-Type header and params of the tools/list requests explored
ListInputs == {
    [x_task_type |-> None, params |-> None],
    [x_task_type |-> Some("storage"), params |-> None],
    [x_task_type |-> None, params |-> Some([query |-> "zfs pools"])],
    [x_task_type |-> None, params |-> Some([query |-> "xyz-no-match"])],
    [x_task_type |-> Some("storage"), params |-> Some([query |-> "add a user"])],
    [x_task_type |-> None,
     params |-> Some([task_type |-> "User_Ops", query |-> "xyz-no-match"])] }

CallNames == {"list_pools", "get_pool", "create_user"}

\* params of the tools/call requests explored: without name, for a name no
\* tool has, and for each tool without arguments, with arguments that fit
\* get_pool and create_user, and with a limit that is no integer
CallInputs ==
    {None, Some([arguments |-> <<>>]), Some([name |-> "no_such_tool"])}
    \cup {Some([name |-> n]) : n \in CallNames}
    \cup {Some([name |-> n,
                arguments |-> [pool_name |-> JStr("tank"), username |-> JStr("bob")]]) :
            n \in CallNames}
    \cup {Some([name |-> "list_pools", arguments |-> [limit |-> JStr("ten")]])}

\* the settings and filter-config.json contents the server is started with
Deployment(settings, data, tool_instances) ==
    [settings |-> settings, data |-> data, tool_instances |-> tool_instances]

Deployments == {
    Deployment(HttpServerSettings(TRUE, TRUE, "intent", FALSE, None), None, ToolInstances),
    Deployment(HttpServerSettings(TRUE, TRUE, "intent", TRUE, None), None,
               VerboseToolInstances),
    Deployment(HttpServerSettings(TRUE, FALSE, "explicit", FALSE, None),
               Some(ConfigScenario), ToolInstances),
    Deployment(HttpServerSettings(TRUE, TRUE, "intent", FALSE, None),
               Some(ConfigScenario), ToolInstances),
    Deployment(HttpServerSettings(FALSE, TRUE, "explicit", FALSE, None),
               Some(ConfigMixed), ToolInstances),
    Deployment(HttpServerSettings(TRUE, FALSE, "intent", TRUE, None),
               Some(ConfigMixed), VerboseToolInstances),
    Deployment(HttpServerSettings(TRUE, FALSE, "intent", FALSE, Some("2")),
               Some(ConfigKeywords), ToolInstances) }

Init == \E d \in Deployments : Construct(d.settings, d.data, d.tool_instances)

\* The handlers run on one event loop: a handler runs from the arrival of
\* its request to its return, or to its await, before another one starts.
\* req = None: the loop is free.  Each action below is one such run; it
\* leaves the request in req and the outcome in resp.
LoopFree == req = None

\* lines 184, 195-197: a request without id is answered with an empty body
NotificationDispatched ==
    /\ LoopFree
    /\ \E client \in Clients, in \in ListInputs :
          \E out \in {handle_tools_list(in.params, client.session_id, client.scopes,
                                        in.x_task_type)} :
              /\ req' = Some(Request("tools/list", None, client, in.x_task_type, in.params))
              /\ session_tools' = out.session_tools
    /\ resp' = Some(EmptyResponse)
    /\ overwrote' = FALSE
    /\ UNCHANGED <<constVars, inflight, last_list, harnessVars>>

Notification ==
    /\ LoopFree
    /\ \E method \in {"initialize", "tools/list", "tools/call", "no/such/method"} :
          req' = Some(ProtocolRequest(method, None, None))
    /\ resp' = Some(EmptyResponse)
    /\ overwrote' = FALSE
    /\ UNCHANGED <<constVars, session_tools, inflight, last_list, harnessVars>>

\* lines 200-202
Initialize ==
    /\ LoopFree
    /\ req' = Some(ProtocolRequest("initialize", Some(1), None))
    /\ resp' = Some(ResultResponse(Some(1), handle_initialize))
    /\ overwrote' = FALSE
    /\ UNCHANGED <<constVars, session_tools, inflight, last_list, harnessVars>>

\* lines 204-212, and 246-256 for the ValueError of get_context_size
ToolsList ==
    /\ LoopFree
    /\ \E client \in Clients, in \in ListInputs :
          \E out \in {handle_tools_list(in.params, client.session_id, client.scopes,
                                        in.x_task_type)} :
              /\ req' = Some(Request("tools/list", Some(1), client, in.x_task_type, in.params))
              /\ session_tools' = out.session_tools
              /\ resp' = Some(IF out.raised
                              THEN ErrorResponse(Some(1),
                                     create_error(INTERNAL_ERROR,
                                                  "Internal server error: " \o out.exc, None))
                              ELSE ResultResponse(Some(1), out.result))
              /\ last_list' = [sid \in (DOMAIN last_list) \cup {client.session_id} |->
                                 IF sid = client.session_id
                                 THEN [scopes |-> client.scopes, ok |-> ~out.raised]
                                 ELSE last_list[sid]]
              /\ overwrote' = ( /\ client.session_id \in DOMAIN session_tools
                                /\ session_tools[client.session_id]
                                      # out.session_tools[client.session_id] )
    /\ UNCHANGED <<constVars, inflight, harnessVars>>

\* lines 214-223 up to the await of line 244: an error envelope, or the
\* request is suspended in the handler it invoked
ToolsCall ==
    /\ LoopFree
    /\ \E client \in Clients, params \in CallInputs :
          \E out \in {handle_tools_call(params, client.session_id, client.scopes)} :
              /\ req' = Some(Request("tools/call", Some(1), client, None, params))
              /\ IF out.error # None
                 THEN /\ resp' = Some(ErrorResponse(Some(1), Val(out.error)))
                      /\ inflight' = inflight
                 ELSE LET call == [id |-> Some(1), handler |-> out.handler]
                      IN  /\ BagCardinality(inflight) < MaxInflight
                          /\ inflight' = inflight (+) SetToBag({call})
                          /\ resp' = Some(AwaitingHandler(out.handler))
    /\ overwrote' = FALSE
    /\ UNCHANGED <<constVars, session_tools, last_list, harnessVars>>

\* lines 243-270 after the await: the handler returned or raised, and the
\* suspended request is resumed
HandlerReturnRechecking ==
    /\ LoopFree
    /\ \E call \in BagToSet(inflight), raised \in BOOLEAN :
          /\ inflight' = inflight (-) SetToBag({call})
          /\ req' = Some([method |-> "tools/call", id |-> call.id, resumed |-> call.handler])
          /\ resp' = Some(IF \E sid \in DOMAIN session_tools :
                                 /\ session_tools[sid] # <<>>
                                 /\ call.handler \notin DOMAIN session_tools[sid]
                          THEN ErrorResponse(call.id,
                                 create_error(METHOD_NOT_FOUND,
                                              not_available_message(call.handler), None))
                          ELSE IF raised
                          THEN ErrorResponse(call.id,
                                 create_error(INTERNAL_ERROR,
                                              "Tool execution failed: " \o HandlerException, None))
                          ELSE ResultResponse(call.id,
                                 [content |-> <<[type |-> "text", text |-> HandlerResult]>>]))
    /\ overwrote' = FALSE
    /\ UNCHANGED <<constVars, session_tools, last_list, harnessVars>>

HandlerReturn ==
    /\ LoopFree
    /\ \E call \in BagToSet(inflight), raised \in BOOLEAN :
          /\ inflight' = inflight (-) SetToBag({call})
          /\ req' = Some([method |-> "tools/call", id |-> call.id, resumed |-> call.handler])
          /\ resp' = Some(IF raised
                          THEN ErrorResponse(call.id,
                                 create_error(INTERNAL_ERROR,
                                              "Tool execution failed: " \o HandlerException, None))
                          ELSE ResultResponse(call.id,
                                 [content |-> <<[type |-> "text", text |-> HandlerResult]>>]))
    /\ overwrote' = FALSE
    /\ UNCHANGED <<constVars, session_tools, last_list, harnessVars>>

\* lines 225-227
PromptsList ==
    /\ LoopFree
    /\ req' = Some(ProtocolRequest("prompts/list", Some(1), None))
    /\ resp' = Some(ResultResponse(Some(1), handle_prompts_list))
    /\ overwrote' = FALSE
    /\ UNCHANGED <<constVars, session_tools, inflight, last_list, harnessVars>>

\* lines 229-233
PromptsGet ==
    /\ LoopFree
    /\ \E params \in {None, Some([name |-> "intent-query-help"]), Some([name |-> "other"])} :
          \E out \in {handle_prompts_get(params)} :
              /\ req' = Some(ProtocolRequest("prompts/get", Some(1), params))
              /\ resp' = Some(IF out.error # None THEN ErrorResponse(Some(1), Val(out.error))
                              ELSE ResultResponse(Some(1), out.result))
    /\ overwrote' = FALSE
    /\ UNCHANGED <<constVars, session_tools, inflight, last_list, harnessVars>>

\* lines 235-244
UnknownMethod ==
    /\ LoopFree
    /\ req' = Some(ProtocolRequest("no/such/method", Some(1), None))
    /\ resp' = Some(ErrorResponse(Some(1),
                      create_error(METHOD_NOT_FOUND, "Method 'no/such/method' not found", None)))
    /\ overwrote' = FALSE
    /\ UNCHANGED <<constVars, session_tools, inflight, last_list, harnessVars>>

\* mcp_endpoint returns its response, or the suspended coroutine yields:
\* the event loop is free for the next request
Yield ==
    /\ req # None
    /\ req' = None
    /\ resp' = None
    /\ overwrote' = FALSE
    /\ UNCHANGED <<constVars, session_tools, inflight, last_list, harnessVars>>

Next ==
    \/ Notification
    \/ Initialize
    \/ ToolsList
    \/ ToolsCall
    \/ HandlerReturn
    \/ PromptsList
    \/ PromptsGet
    \/ UnknownMethod
    \/ Yield

Spec == Init /\ [][Next]_vars

----------------------------------------------------------------------------
(* Properties of the protocol handler, checked under Spec *)

\* the event loop has just run the handler of a request (not a notification,
\* not the resumption of a suspended call) of this method
Handled(method) ==
    /\ req # None
    /\ Val(req).method = method
    /\ Val(req).id # None
    /\ "params" \in DOMAIN Val(req)

CallHasName ==
    /\ Val(req).params # None
    /\ "name" \in DOMAIN Val(Val(req).params)

CallName == Val(Val(req).params).name

CallArguments ==
    IF "arguments" \in DOMAIN Val(Val(req).params) THEN Val(Val(req).params).arguments
    ELSE <<>>

Dispatched == Val(resp).kind = "awaiting_handler"

RejectedWith(code) == Val(resp).kind = "error" /\ Val(resp).error.code = code

\* the labels a caller must share with a tool: required_scopes, or task_types
\* when required_scopes is unset
ScopeLabels(tool) ==
    IF tool.required_scopes # None /\ Val(tool.required_scopes) # <<>>
    THEN Range(Val(tool.required_scopes))
    ELSE Range(tool.task_types)

InsufficientScope(scopes, tool) ==
    scopes # {} /\ "admin" \notin scopes /\ ScopeLabels(tool) \cap scopes = {}

ArgumentsFit(arguments, tool) ==
    \/ tool.request_schema = None
    \/ /\ Range(Val(tool.request_schema).required) \subseteq DOMAIN arguments
       /\ \A i \in DOMAIN Val(tool.request_schema).properties :
             Val(tool.request_schema).properties[i].name \in DOMAIN arguments
                => arguments[Val(tool.request_schema).properties[i].name].type
                     = Val(tool.request_schema).properties[i].schema.type

\* C1 (the cached set decides dispatch), as claimed: after every tools/call
\* in a session that has a cache entry, whatever set the entry holds, a
\* handler was invoked only for a name in the cached set, and a call naming
\* a tool absent from the cached set was rejected with METHOD_NOT_FOUND.
CachedSetDecidesDispatch ==
    ( /\ Handled("tools/call")
      /\ Val(req).session_id \in DOMAIN session_tools )
    => /\ Dispatched => Val(resp).handler \in DOMAIN session_tools[Val(req).session_id]
       /\ ( /\ CallHasName
            /\ CallName \notin DOMAIN session_tools[Val(req).session_id] )
          => RejectedWith(METHOD_NOT_FOUND)

\* C2 (session cache round-trip): a successful tools/list returns exactly the
\* names it caches for the session; and after every tools/call in a session
\* whose last tools/list succeeded and was made with the scopes of the call,
\* if the call names a tool of that list and its arguments fit the tool's
\* request schema, the handler of that tool has been invoked.
RoundTripReachesDispatch ==
    /\ ( /\ Handled("tools/list")
         /\ Val(resp).kind = "result" )
       => {t.name : t \in Val(resp).result.tools}
             = DOMAIN session_tools[Val(req).session_id]
    /\ ( /\ Handled("tools/call")
         /\ Val(req).session_id \in DOMAIN last_list
         /\ last_list[Val(req).session_id].ok
         /\ last_list[Val(req).session_id].scopes = Val(req).scopes
         /\ CallHasName
         /\ CallName \in DOMAIN session_tools[Val(req).session_id]
         /\ ArgumentsFit(CallArguments, session_tools[Val(req).session_id][CallName]) )
       => /\ Dispatched
          /\ Val(resp).handler = CallName

\* a caller restricted to storage-ops lists, then calls a listed tool with
\* fitting arguments, and its handler is invoked
RoundTripWitness ==
    /\ Handled("tools/call")
    /\ Val(req).scopes = {"storage-ops"}
    /\ Val(req).session_id \in DOMAIN last_list
    /\ last_list[Val(req).session_id].scopes = {"storage-ops"}
    /\ last_list[Val(req).session_id].ok
    /\ CallHasName
    /\ CallName = "get_pool"
    /\ "get_pool" \in DOMAIN session_tools[Val(req).session_id]
    /\ "create_user" \notin DOMAIN session_tools[Val(req).session_id]
    /\ Dispatched

\* C3 (a failed tools/list leaves the cache alone), as claimed: every run of
\* the tools/list handler that ends with an error leaves the session cache
\* as it was before the request.
FailedListLeavesCache ==
    [][ ( /\ req = None
          /\ req' # None
          /\ Val(req').method = "tools/list"
          /\ Val(req').id # None
          /\ Val(resp').kind = "error" )
        => session_tools' = session_tools ]_vars

\* the complete filtered set one tools/list request computes: the gate's
\* result for its context, scope-filtered for its caller
FilteredSetOf(scopes, x_task_type, params) ==
    scope_filter(get_available_tools(list_context(params, x_task_type).context).tools,
                 <<>>, scopes).tools

\* C4 (concurrent tools/list requests of one session): at every moment the
\* cache entry of a session is absent or is exactly the complete filtered set
\* of one single tools/list request, one made by the caller that listed last
\* for that session; and every change of the cache is the write of one
\* tools/list request, which leaves the entry of its session equal to the
\* complete set that request computed (so the entry is the set of the
\* request that wrote last) and leaves the entries of the other sessions as
\* they were.
CacheEntryIsOneRequestsSet ==
    /\ [](\A sid \in DOMAIN session_tools :
            /\ sid \in DOMAIN last_list
            /\ \E in \in ListInputs :
                  session_tools[sid]
                     = FilteredSetOf(last_list[sid].scopes, in.x_task_type, in.params))
    /\ [][ session_tools' # session_tools
            => /\ req' # None
               /\ Val(req').method = "tools/list"
               /\ Val(req').id # None
               /\ DOMAIN session_tools' = (DOMAIN session_tools) \cup {Val(req').session_id}
               /\ \A sid \in DOMAIN session_tools' :
                     session_tools'[sid] =
                        IF sid = Val(req').session_id
                        THEN FilteredSetOf(Val(req').scopes, Val(req').x_task_type,
                                           Val(req').params)
                        ELSE session_tools[sid] ]_vars

\* a tools/list of a caller restricted to storage-ops has replaced the
\* different set another tools/list had cached for the same session, while
\* a tools/call is still suspended in its handler
CacheEntryIsOneRequestsSetWitness ==
    /\ Handled("tools/list")
    /\ Val(req).scopes = {"storage-ops"}
    /\ overwrote
    /\ DOMAIN session_tools[Val(req).session_id] = {"list_pools", "get_pool"}
    /\ inflight # EmptyBag

\* C5 (scope filter of tools/list): after every tools/list, when the caller's
\* scopes are non-empty and lack "admin", every tool cached for the session
\* is a tool of the gate's result that shares a label (required_scopes, or
\* task_types when unset) with the caller's scopes; when the scopes are
\* empty or contain "admin", the cached set is the gate's result; and the
\* names returned are the names cached.
ListedToolsAreInScope ==
    Handled("tools/list") =>
        LET scopes == Val(req).scopes
            cached == session_tools[Val(req).session_id]
            gate == get_available_tools(
                        list_context(Val(req).params, Val(req).x_task_type).context).tools
        IN  /\ (scopes # {} /\ "admin" \notin scopes)
                => \A n \in DOMAIN cached :
                      /\ n \in DOMAIN gate
                      /\ cached[n] = gate[n]
                      /\ ScopeLabels(cached[n]) \cap scopes # {}
            /\ (scopes = {} \/ "admin" \in scopes) => cached = gate
            /\ Val(resp).kind = "result"
                => {t.name : t \in Val(resp).result.tools} = DOMAIN cached

\* a caller restricted to storage-ops lists without task type: the gate lets
\* create_user through and the scope filter drops it
ListedToolsAreInScopeWitness ==
    /\ Handled("tools/list")
    /\ Val(req).scopes = {"storage-ops"}
    /\ "create_user" \in DOMAIN get_available_tools(
            list_context(Val(req).params, Val(req).x_task_type).context).tools
    /\ {"list_pools", "get_pool"} \subseteq DOMAIN session_tools[Val(req).session_id]
    /\ "create_user" \notin DOMAIN session_tools[Val(req).session_id]
    /\ Val(resp).kind = "result"

\* C6 (non-enumeration), as claimed: the response to a tools/call naming a
\* tool of the catalog for which the caller's scopes are insufficient is the
\* response a call naming a tool that does not exist gets: the
\* METHOD_NOT_FOUND error with the "not available" message for that name,
\* and nothing else.
InsufficientScopeLooksLikeUnknownTool ==
    ( /\ Handled("tools/call")
      /\ CallHasName
      /\ CallName \in DOMAIN all_tools
      /\ InsufficientScope(Val(req).scopes, all_tools[CallName]) )
    => Val(resp) = ErrorResponse(Val(req).id,
                     create_error(METHOD_NOT_FOUND,
                                  "Tool '" \o CallName \o "' not available or blocked by gating", None))

\* the set a tools/call may choose from: the session's cache entry when it
\* is there and not empty, else the registry
VisibleSet ==
    IF /\ Val(req).session_id \in DOMAIN session_tools
       /\ session_tools[Val(req).session_id] # <<>>
    THEN session_tools[Val(req).session_id]
    ELSE all_tools

\* C7 (order of the tools/call checks): after every tools/call the outcome
\* is that of the first failing check in the order: missing name
\* (INVALID_PARAMS), name not in the visible set (METHOD_NOT_FOUND),
\* insufficient scope (METHOD_NOT_FOUND, naming the required scopes),
\* arguments violating the request schema (INVALID_PARAMS); and the handler
\* is invoked exactly when all four checks pass.
CallChecksInOrder ==
    Handled("tools/call") =>
        IF ~CallHasName
        THEN Val(resp) = ErrorResponse(Val(req).id,
                            create_error(INVALID_PARAMS, "Missing 'name' parameter", None))
        ELSE IF CallName \notin DOMAIN VisibleSet
        THEN /\ RejectedWith(METHOD_NOT_FOUND)
             /\ Val(resp).error.message
                  = "Tool '" \o CallName \o "' not available or blocked by gating"
        ELSE IF InsufficientScope(Val(req).scopes, VisibleSet[CallName])
        THEN /\ RejectedWith(METHOD_NOT_FOUND)
             /\ Val(resp).error.message
                  = insufficient_permissions_message(scopes_of(VisibleSet[CallName]))
        ELSE IF ~ArgumentsFit(CallArguments, VisibleSet[CallName])
        THEN /\ RejectedWith(INVALID_PARAMS)
             /\ SubSeq(Val(resp).error.message, 1, 20) = "Invalid parameters: "
             /\ "data" \in DOMAIN Val(resp).error
        ELSE /\ Dispatched
             /\ Val(resp).handler = CallName

\* a call that fails both the scope check and the schema check is answered
\* by the scope check
CallChecksInOrderWitness ==
    /\ Handled("tools/call")
    /\ CallHasName
    /\ CallName \in DOMAIN VisibleSet
    /\ InsufficientScope(Val(req).scopes, VisibleSet[CallName])
    /\ ~ArgumentsFit(CallArguments, VisibleSet[CallName])
    /\ RejectedWith(METHOD_NOT_FOUND)

----------------------------------------------------------------------------
(* Properties of the Task-Type Filter, checked under FilterSpec *)

TaskTypeFilterApplied == fin # None /\ Val(fin).filter = "TaskTypeFilter"

\* C8 (strict no-match): whenever the Task-Type Filter is applied to a context
\* that has a query (any string, the empty one included) and an empty list of
\* detected task types, and strict_context_limit is set or
\* intent_fallback_to_all is unset, the filter returns the empty tool set,
\* for every input tool set, explicit task type and allowlist configuration.
StrictNoMatchReturnsEmpty ==
    ( /\ TaskTypeFilterApplied
      /\ Val(fin).context.query # None
      /\ Val(fin).context.detected_task_types = Some(<<>>)
      /\ (http_settings.strict_context_limit \/ ~http_settings.intent_fallback_to_all) )
    => DOMAIN Val(fout) = {}

\* a strict no-match on a tool set whose explicit task type would have matched
StrictNoMatchWitness ==
    /\ TaskTypeFilterApplied
    /\ Val(fin).context.query = Some("xyz-no-match")
    /\ Val(fin).context.detected_task_types = Some(<<>>)
    /\ Val(fin).context.task_type = Some("storage-ops")
    /\ ~http_settings.strict_context_limit /\ ~http_settings.intent_fallback_to_all
    /\ "list_pools" \in DOMAIN Val(fin).tools
    /\ "list_pools" \in task_type_allowlists["storage-ops"]
    /\ DOMAIN Val(fout) = {}

\* C9 (default meta-ops exclusion): whenever the Task-Type Filter is applied
\* to a context with no explicit task type (None or empty), no query and no
\* detected task types (None or empty), the output is exactly the input
\* tools whose task_types do not contain "meta-ops", each unchanged.
DefaultExcludesMetaOps ==
    ( /\ TaskTypeFilterApplied
      /\ ~TruthyStr(Val(fin).context.task_type)
      /\ Val(fin).context.query = None
      /\ ~TruthyList(Val(fin).context.detected_task_types) )
    => /\ DOMAIN Val(fout) =
            {n \in DOMAIN Val(fin).tools :
                \A i \in DOMAIN Val(fin).tools[n].task_types :
                    Val(fin).tools[n].task_types[i] # "meta-ops"}
       /\ \A n \in DOMAIN Val(fout) : Val(fout)[n] = Val(fin).tools[n]

\* no task type at all, on a set holding a meta-ops tool, a tool tagged
\* meta-ops second, and two other tools
DefaultExcludesMetaOpsWitness ==
    /\ TaskTypeFilterApplied
    /\ Val(fin).context = FilterContext(None, None, None)
    /\ DOMAIN Val(fin).tools = {"list_pools", "create_user", "list_tools", "pool_help"}
    /\ DOMAIN Val(fout) = {"list_pools", "create_user"}

\* the canonical allowlist keys the labels of a context resolve to, once the
\* strict no-match test has let the context through
ResolvedLabels(context) ==
    IF strict_no_match(context) THEN {}
    ELSE LET chosen == task_types_by_precedence(context)
             keys == {normalize_key(Some(chosen[i])) : i \in DOMAIN chosen} \ {None}
         IN  {k \in DOMAIN task_type_allowlists :
                \E key \in keys :
                    \/ Val(key) = k
                    \/ /\ Val(key) \notin DOMAIN task_type_allowlists
                       /\ Val(key) \in DOMAIN alias_map
                       /\ alias_map[Val(key)] = k}

MergedAllowlist(labels) == UNION {task_type_allowlists[k] : k \in labels}

\* C10 (allowlist and self-tag intersection): whenever the Task-Type Filter
\* resolves at least one label and the union of the allowlists of the
\* resolved labels is non-empty, the output is exactly the input tools that
\* are named in that union and carry a resolved label in their task_types,
\* each unchanged; and when the explicit task type is an alias, the output
\* is the output for the canonical label in its place.
AllowlistSelfTagIntersection ==
    LET context == Val(fin).context
        labels == ResolvedLabels(context)
        key == normalize_key(context.task_type)
    IN  ( /\ TaskTypeFilterApplied
          /\ labels # {}
          /\ MergedAllowlist(labels) # {} )
        => /\ DOMAIN Val(fout) =
                {n \in DOMAIN Val(fin).tools :
                    /\ n \in MergedAllowlist(labels)
                    /\ \E k \in labels : k \in Range(Val(fin).tools[n].task_types)}
           /\ \A n \in DOMAIN Val(fout) : Val(fout)[n] = Val(fin).tools[n]
           /\ ( /\ key # None
                /\ Val(key) \notin DOMAIN task_type_allowlists
                /\ Val(key) \in DOMAIN alias_map )
              => Val(fout) = TaskTypeFilter_apply(Val(fin).tools,
                                [context EXCEPT !.task_type = Some(alias_map[Val(key)])])

\* the alias "storage" on the allowlist {storage-ops: [list_pools, ...]}:
\* list_pools is kept, create_user (allowlisted under storage-ops in one
\* configuration, but tagged user-ops) is dropped
AllowlistSelfTagWitness ==
    /\ TaskTypeFilterApplied
    /\ Val(fin).context = FilterContext(Some("storage"), None, None)
    /\ "storage" \in DOMAIN alias_map
    /\ "create_user" \in task_type_allowlists["storage-ops"]
    /\ {"list_pools", "create_user", "list_tools"} \subseteq DOMAIN Val(fin).tools
    /\ "list_pools" \in DOMAIN Val(fout)
    /\ "create_user" \notin DOMAIN Val(fout)

----------------------------------------------------------------------------
(* Precedence in tools/list, checked under Spec *)

\* the explicit task type of the request: the header, else the parameter
ExplicitTaskType == IF TruthyStr(Val(req).x_task_type) THEN Val(req).x_task_type
                    ELSE params_get(Val(req).params, "task_type")

RequestQuery == params_get(Val(req).params, "query")

\* the set a tools/list request leaves for its caller when the gate filters
\* for the given context
ListedFor(context) ==
    scope_filter(run_filters(1, all_tools, <<>>, context).tools, <<>>, Val(req).scopes).tools

\* C13 as stated: under intent precedence a tools/list request with an
\* explicit task type and a query gets the tools filtered by the detected
\* task types when there are any, and by the explicit task type when the
\* classifier detects none and the fallback policy lets the request through.
IntentPrecedenceFallsBackToExplicit ==
    ( /\ Handled("tools/list")
      /\ http_settings.intent_precedence = "intent"
      /\ http_settings.intent_classification_enabled
      /\ TruthyStr(ExplicitTaskType)
      /\ TruthyStr(RequestQuery)
      /\ classify_intent(Val(RequestQuery)) = <<>> => ~strict_or_no_fallback )
    => session_tools[Val(req).session_id]
         = ListedFor(IF classify_intent(Val(RequestQuery)) # <<>>
                     THEN FilterContext(None, None, Some(classify_intent(Val(RequestQuery))))
                     ELSE FilterContext(ExplicitTaskType, None, None))

\* C20: a request without id, whatever its method, is answered with the
\* empty body, leaves the session cache as it was and invokes no handler.
NotificationsAreDropped ==
    [][ (req = None /\ req' # None /\ Val(req').id = None)
            => /\ resp' = Some(EmptyResponse)
               /\ session_tools' = session_tools
               /\ inflight' = inflight ]_vars

\* a tools/list notification in a server whose cache holds a session's set
NotificationsAreDroppedWitness ==
    /\ req # None
    /\ Val(req).id = None
    /\ Val(req).method = "tools/list"
    /\ resp = Some(EmptyResponse)
    /\ \E sid \in DOMAIN session_tools : session_tools[sid] # <<>>

----------------------------------------------------------------------------
(* Precedence in the Task-Type Filter, checked under FilterSpec *)

AppliedContext == Val(fin).context

\* the applied context without query and detected task types
ExplicitOnly == FilterContext(AppliedContext.task_type, None, None)

\* C14 as stated: under explicit precedence a context with a task type is
\* filtered as the same context without query and detected task types is,
\* whatever the query, the detected task types and the flags are.
ExplicitPrecedenceIgnoresIntent ==
    ( /\ TaskTypeFilterApplied
      /\ http_settings.intent_precedence = "explicit"
      /\ TruthyStr(AppliedContext.task_type) )
    => Val(fout) = TaskTypeFilter_apply(Val(fin).tools, ExplicitOnly)

\* C14: under explicit precedence a context with a task type is filtered as
\* the same context without query and detected task types is, except that
\* the strict no-match test comes first: with a query, detected task types
\* equal to the empty list and strict_context_limit set or
\* intent_fallback_to_all unset, the output is empty whatever the task type.
ExplicitPrecedenceAfterStrictNoMatch ==
    ( /\ TaskTypeFilterApplied
      /\ http_settings.intent_precedence = "explicit"
      /\ TruthyStr(AppliedContext.task_type) )
    => IF /\ AppliedContext.query # None
          /\ AppliedContext.detected_task_types = Some(<<>>)
          /\ (http_settings.strict_context_limit \/ ~http_settings.intent_fallback_to_all)
       THEN Val(fout) = <<>>
       ELSE Val(fout) = TaskTypeFilter_apply(Val(fin).tools, ExplicitOnly)

\* task type storage-ops with detected task types user-ops and storage-ops:
\* create_user is dropped although user-ops was detected
ExplicitPrecedenceAfterStrictNoMatchWitness ==
    /\ TaskTypeFilterApplied
    /\ http_settings.intent_precedence = "explicit"
    /\ AppliedContext.task_type = Some("storage-ops")
    /\ AppliedContext.detected_task_types = Some(<<"user-ops", "storage-ops">>)
    /\ AppliedContext.query = Some("xyz-no-match")
    /\ "create_user" \in task_type_allowlists["user-ops"]
    /\ {"create_user", "list_pools"} \subseteq DOMAIN Val(fin).tools
    /\ DOMAIN Val(fout) = {"list_pools"}

\* the canonical allowlist keys the labels chosen by precedence resolve to
LabelsByPrecedence(context) ==
    {k \in DOMAIN task_type_allowlists :
        \E label \in Range(task_types_by_precedence(context)) :
            \/ str_lower(str_strip(label)) = k
            \/ /\ str_lower(str_strip(label)) \notin DOMAIN task_type_allowlists
               /\ str_lower(str_strip(label)) \in DOMAIN alias_map
               /\ alias_map[str_lower(str_strip(label))] = k}

\* C15: when at least one label is resolved and the union of the allowlists
\* of the resolved labels is empty, the output is empty if
\* strict_context_limit is set or intent_fallback_to_all is unset, and is the
\* whole input, meta-ops tools included, otherwise.
EmptyMergedAllowlistDegrades ==
    ( /\ TaskTypeFilterApplied
      /\ LabelsByPrecedence(AppliedContext) # {}
      /\ MergedAllowlist(LabelsByPrecedence(AppliedContext)) = {} )
    => IF http_settings.strict_context_limit \/ ~http_settings.intent_fallback_to_all
       THEN Val(fout) = <<>>
       ELSE Val(fout) = Val(fin).tools

\* the label user-ops with an empty allowlist, fallback allowed: the input,
\* with its meta-ops tool, comes back whole
EmptyMergedAllowlistDegradesWitness ==
    /\ TaskTypeFilterApplied
    /\ ~http_settings.strict_context_limit /\ http_settings.intent_fallback_to_all
    /\ LabelsByPrecedence(AppliedContext) = {"user-ops"}
    /\ task_type_allowlists["user-ops"] = {}
    /\ {"list_tools", "list_pools"} \subseteq DOMAIN Val(fin).tools
    /\ Val(fout) = Val(fin).tools

----------------------------------------------------------------------------
(* Properties of label resolution, checked under FilterSpec *)

NormalizeApplied == fin # None /\ Val(fin).filter = "_normalize_task_types"

AppliedLabel == Val(fin).task_types[1]

\* a label or key trimmed and lower-cased
Folded(label) == str_lower(str_strip(label))

CanonicalKeys == DOMAIN task_type_allowlists

\* the alias candidates of a canonical key: the key without its "-ops"
\* suffix, the key with "_" for "-", and that form without "_"
DerivedAliases(K) ==
    {a \in {SubSeq(K, 1, Len(K) - 4), str_replace(K, "-", "_"),
            str_replace(str_replace(K, "-", "_"), "_", "")} :
        /\ a # "" /\ a # K
        /\ a = SubSeq(K, 1, Len(K) - 4) => Len(K) >= 4 /\ SubSeq(K, Len(K) - 3, Len(K)) = "-ops"}

\* the configured allowlists (in the order of the file, or of the defaults)
\* the tables of this deployment were built from
ConfiguredAllowlists ==
    {raw \in {load_filter_config(data, http_settings, registration_order(ToolInstances),
                                 all_tools).task_type_allowlists : data \in ConfigFiles} :
        {Folded(raw[i].key) : i \in DOMAIN raw} \ {""} = CanonicalKeys}

\* K1 is configured before K2
ConfiguredBefore(raw, K1, K2) ==
    \E i \in DOMAIN raw :
        /\ Folded(raw[i].key) = K1
        /\ \A j \in DOMAIN raw : Folded(raw[j].key) = K2 => i < j

\* C11 as stated: a label that is, up to casing and padding, a configured
\* key K or one of K's derived aliases resolves to K.
AliasesResolveToTheirKey ==
    NormalizeApplied =>
        \A K \in CanonicalKeys :
            (Folded(AppliedLabel) = K \/ Folded(AppliedLabel) \in DerivedAliases(K))
                => Val(fout) = <<K>>

\* C11: resolution depends on the folded label only: a label that folds to a
\* configured key K resolves to K; a label that folds to a derived alias of K
\* resolves to K unless that alias is itself a canonical key (then it resolves
\* to that key) or is also derived from a key configured before K (then it
\* resolves to the first such key).
UnshadowedAliasesResolveToTheirKey ==
    NormalizeApplied =>
        /\ Folded(AppliedLabel) \in CanonicalKeys => Val(fout) = <<Folded(AppliedLabel)>>
        /\ Folded(AppliedLabel) \notin CanonicalKeys =>
               \A raw \in ConfiguredAllowlists, K \in CanonicalKeys :
                   (/\ Folded(AppliedLabel) \in DerivedAliases(K)
                    /\ \A K2 \in CanonicalKeys :
                           Folded(AppliedLabel) \in DerivedAliases(K2)
                               => ~ConfiguredBefore(raw, K2, K))
                       => Val(fout) = <<K>>

\* a mixed-case, padded alias resolved to its key, in a deployment where two
\* keys derive the same alias and the earlier one took it
UnshadowedAliasesResolveToTheirKeyWitness ==
    /\ NormalizeApplied
    /\ AppliedLabel = "USEROPS"
    /\ {"user_ops", "user-ops"} \subseteq CanonicalKeys
    /\ Val(fout) = <<"user_ops">>

\* C12: the alias table has no entry whose alias is a canonical key, and a
\* label that is a canonical key resolves to that key, also when it is an
\* alias candidate of another key.
AliasesNeverShadowCanonicalKeys ==
    /\ DOMAIN alias_map \cap CanonicalKeys = {}
    /\ \A a \in DOMAIN alias_map : alias_map[a] \in CanonicalKeys
    /\ NormalizeApplied /\ Folded(AppliedLabel) \in CanonicalKeys
           => Val(fout) = <<Folded(AppliedLabel)>>

\* the label "storage" where both "storage" and "storage-ops" are configured
AliasesNeverShadowCanonicalKeysWitness ==
    /\ NormalizeApplied
    /\ Folded(AppliedLabel) = "storage"
    /\ {"storage", "storage-ops"} \subseteq CanonicalKeys
    /\ "storage" \in DerivedAliases("storage-ops")
    /\ Val(fout) = <<"storage">>

----------------------------------------------------------------------------
(* Properties of the gate, checked under GateSpec *)

Applied(name) == fin # None /\ Val(fin).filter = name

\* C16: the Resource Filter's output is a part of its input with
\* min(|input|, max_tools) tools, each unchanged; every kept tool comes before
\* every dropped tool in the order (priority descending, name ascending);
\* and an input within the cap is returned as it is.
ResourceCapKeepsTheFirst ==
    Applied("ResourceFilter") =>
        /\ DOMAIN Val(fout) \subseteq DOMAIN Val(fin).tools
        /\ \A n \in DOMAIN Val(fout) : Val(fout)[n] = Val(fin).tools[n]
        /\ Cardinality(DOMAIN Val(fout)) =
               (IF Cardinality(DOMAIN Val(fin).tools) <= max_tools
                THEN Cardinality(DOMAIN Val(fin).tools) ELSE max_tools)
        /\ \A k \in DOMAIN Val(fout), d \in (DOMAIN Val(fin).tools) \ DOMAIN Val(fout) :
               \/ Val(fin).tools[k].priority > Val(fin).tools[d].priority
               \/ /\ Val(fin).tools[k].priority = Val(fin).tools[d].priority
                  /\ str_lt(k, d)
        /\ Cardinality(DOMAIN Val(fin).tools) <= max_tools => Val(fout) = Val(fin).tools

\* five tools of priorities 3, 1, 3, 0, 2 under a cap of 3: the two of
\* priority 3 and the one of priority 2 are kept
ResourceCapKeepsTheFirstWitness ==
    /\ Applied("ResourceFilter")
    /\ max_tools = 3
    /\ DOMAIN Val(fin).tools =
           {"list_pools", "create_user", "get_pool", "system_info", "list_tools"}
    /\ DOMAIN Val(fout) = {"get_pool", "list_pools", "list_tools"}

\* the three stages, each on the output of the one before
TaskTypeStage(context) == TaskTypeFilter_apply(all_tools, context)
ResourceStage(context) == ResourceFilter_apply(TaskTypeStage(context), context)
SecurityStage(context) == SecurityFilter_apply(ResourceStage(context), context)

\* C17: the Security Filter returns its input without the tools named in the
\* blocklist and with nothing else removed, and the set get_available_tools
\* returns names no blocklisted tool: it is the Resource Filter's output
\* without the blocklisted tools.
BlocklistIsExcluded ==
    /\ Applied("SecurityFilter") =>
           /\ DOMAIN Val(fout) = (DOMAIN Val(fin).tools) \ blocklist
           /\ \A n \in DOMAIN Val(fout) : Val(fout)[n] = Val(fin).tools[n]
    /\ Applied("get_available_tools") =>
           /\ DOMAIN Val(fout).tools \cap blocklist = {}
           /\ DOMAIN Val(fout).tools = (DOMAIN ResourceStage(Val(fin).context)) \ blocklist

\* get_pool passes the first two stages and is blocklisted
BlocklistIsExcludedWitness ==
    /\ Applied("get_available_tools")
    /\ blocklist = {"get_pool"}
    /\ {"get_pool", "list_pools"} \subseteq DOMAIN ResourceStage(Val(fin).context)
    /\ "list_pools" \in DOMAIN Val(fout).tools
    /\ "get_pool" \notin DOMAIN Val(fout).tools

\* C18: get_available_tools returns the Security Filter's output for the
\* Resource Filter's output for the Task-Type Filter's output for the
\* catalog, and filters_applied names, in that order, exactly the stages
\* whose output differs from their input.
StagesRunInOrderAndReportChanges ==
    Applied("get_available_tools") =>
        /\ Val(fout).tools = SecurityStage(Val(fin).context)
        /\ Val(fout).filters_applied =
              (IF TaskTypeStage(Val(fin).context) # all_tools
               THEN <<"TaskTypeFilter">> ELSE <<>>)
              \o (IF ResourceStage(Val(fin).context) # TaskTypeStage(Val(fin).context)
                  THEN <<"ResourceFilter">> ELSE <<>>)
              \o (IF SecurityStage(Val(fin).context) # ResourceStage(Val(fin).context)
                  THEN <<"SecurityFilter">> ELSE <<>>)

\* the cap cuts what the Task-Type Filter left and the blocklist removes a
\* tool the cap kept, where blocklisting first would have kept another
StagesRunInOrderAndReportChangesWitness ==
    /\ Applied("get_available_tools")
    /\ Val(fout).filters_applied = <<"TaskTypeFilter", "ResourceFilter", "SecurityFilter">>
    /\ DOMAIN Val(fout).tools = {"list_pools"}
    /\ max_tools = 2
    /\ blocklist = {"get_pool"}

\* the sum of the precomputed sizes of the requested tools
PrecomputedSize(tools) ==
    sum_over([n \in DOMAIN tools |-> tool_sizes[n]], DOMAIN tools)

\* C19: get_context_size raises exactly when the sum of the precomputed
\* sizes of the requested tools is above 7600 and enforcement is on
\* (enforce_hard_limit true, or not given and strict_context_limit set), and
\* otherwise returns that sum.
ContextBudgetEnforced ==
    Applied("get_context_size") =>
        /\ Val(fout).raised <=>
              /\ PrecomputedSize(Val(fin).tools) > 7600
              /\ IF Val(fin).enforce_hard_limit = None THEN http_settings.strict_context_limit
                 ELSE Val(Val(fin).enforce_hard_limit)
        /\ ~Val(fout).raised => Val(fout).token_count = PrecomputedSize(Val(fin).tools)

\* 7601 tokens with the flag not given and strict_context_limit set
ContextBudgetEnforcedWitness ==
    /\ Applied("get_context_size")
    /\ Val(fin).enforce_hard_limit = None
    /\ http_settings.strict_context_limit
    /\ PrecomputedSize(Val(fin).tools) = 7601
    /\ Val(fout).raised

----------------------------------------------------------------------------
(* Scenarios and the tools/call path, checked under Spec *)

\* the configuration of the storage scenario
StorageScenarioConfigured ==
    /\ task_type_allowlists = ("storage-ops" :> {"list_pools", "get_pool"})
                                @@ ("user-ops" :> {"create_user"})
    /\ max_tools = 10
    /\ blocklist = {}
    /\ {"list_pools", "get_pool", "create_user"} \subseteq DOMAIN all_tools

\* C21: with the scenario's configuration, classification on, a caller of
\* scopes {storage-ops} and a query about zfs pools (classified as
\* storage-ops), tools/list returns exactly list_pools and get_pool and
\* caches exactly that set for the session.
StorageScenarioListsBothPools ==
    ( /\ Handled("tools/list")
      /\ StorageScenarioConfigured
      /\ http_settings.intent_classification_enabled
      /\ Val(req).scopes = {"storage-ops"}
      /\ Val(req).x_task_type = None
      /\ Val(req).params = Some([query |-> "zfs pools"]) )
    => /\ session_tools[Val(req).session_id]
            = Restrict(all_tools, {"list_pools", "get_pool"})
       /\ Val(resp).kind = "result"
       /\ {t.name : t \in Val(resp).result.tools} = {"list_pools", "get_pool"}

StorageScenarioListsBothPoolsWitness ==
    /\ Handled("tools/list")
    /\ StorageScenarioConfigured
    /\ http_settings.intent_classification_enabled
    /\ Val(req).scopes = {"storage-ops"}
    /\ Val(req).params = Some([query |-> "zfs pools"])
    /\ Val(resp).kind = "result"
    /\ Val(resp).result._metadata.detected_task_types = Some(<<"storage-ops">>)
    /\ DOMAIN session_tools[Val(req).session_id] = {"list_pools", "get_pool"}

\* a tools/call request has just been taken up (not resumed after its handler)
CallStarts == req = None /\ req' # None /\ Val(req').method = "tools/call"
                /\ "params" \in DOMAIN Val(req')

\* C22: a tools/call in a session no tools/list was ever made for finds every
\* registered tool visible: its outcome is that of the scope check and the
\* argument validation against the registry's entry, never "not available";
\* and a tools/call leaves the cache without an entry for that session.
CallBeforeAnyListSeesRegistry ==
    /\ [](( /\ Handled("tools/call")
            /\ CallHasName
            /\ Val(req).session_id \notin DOMAIN last_list
            /\ CallName \in DOMAIN all_tools )
          => /\ Val(req).session_id \notin DOMAIN session_tools
             /\ IF InsufficientScope(Val(req).scopes, all_tools[CallName])
                THEN /\ RejectedWith(METHOD_NOT_FOUND)
                     /\ Val(resp).error.message
                          = insufficient_permissions_message(scopes_of(all_tools[CallName]))
                ELSE IF ~ArgumentsFit(CallArguments, all_tools[CallName])
                THEN RejectedWith(INVALID_PARAMS)
                ELSE Dispatched /\ Val(resp).handler = CallName)
    /\ [][CallStarts => DOMAIN session_tools' = DOMAIN session_tools]_vars

\* a call dispatched in a session without cache entry while another session
\* has one
CallBeforeAnyListSeesRegistryWitness ==
    /\ Handled("tools/call")
    /\ CallHasName
    /\ Val(req).session_id \notin DOMAIN last_list
    /\ session_tools # <<>>
    /\ Dispatched
    /\ Val(resp).handler = CallName

\* C23: no step removes a session id from the cache, and a step that changes
\* the cache is a tools/list request that inserts or replaces the entry of
\* its own session id and leaves every other entry as it was; initialize,
\* tools/call, the prompts methods, notifications and handler returns leave
\* the whole cache unchanged.
CacheChangesOnlyByOwnList ==
    [][ /\ DOMAIN session_tools \subseteq DOMAIN session_tools'
        /\ session_tools' # session_tools
              => /\ req' # None
                 /\ Val(req').method = "tools/list"
                 /\ Val(req').id # None
                 /\ DOMAIN session_tools' = DOMAIN session_tools \cup {Val(req').session_id}
                 /\ \A sid \in DOMAIN session_tools :
                        sid # Val(req').session_id => session_tools'[sid] = session_tools[sid]
      ]_vars

\* a tools/list that replaced its session's entry while another session has
\* an entry of its own
CacheChangesOnlyByOwnListWitness ==
    /\ Handled("tools/list")
    /\ overwrote
    /\ \E sid \in DOMAIN session_tools :
          /\ sid # Val(req).session_id
          /\ session_tools[sid] # session_tools[Val(req).session_id]

\* C26 as stated: tools/call never invokes the handler of a tool whose name
\* is in the configured blocklist.
BlocklistedToolNeverDispatched ==
    /\ \A call \in BagToSet(inflight) : call.handler \notin blocklist
    /\ (Handled("tools/call") /\ Dispatched) => Val(resp).handler \notin blocklist

\* C27: tools/call invokes no handler of a tool when the scopes of the
\* calling request are non-empty, lack "admin" and share no label with the
\* tool's required_scopes (or task_types), whoever wrote the session's cache.
ScopeEnforcedOnEveryCall ==
    (Handled("tools/call") /\ CallHasName /\ CallName \in DOMAIN all_tools
        /\ InsufficientScope(Val(req).scopes, all_tools[CallName]))
    => /\ ~Dispatched
       /\ Val(resp).kind = "error"

\* the session's cache was written for an admin caller and holds
\* create_user; a caller of scopes {storage-ops} in the same session calls it
ScopeEnforcedOnEveryCallWitness ==
    /\ Handled("tools/call")
    /\ CallHasName
    /\ CallName = "create_user"
    /\ Val(req).scopes = {"storage-ops"}
    /\ Val(req).session_id \in DOMAIN last_list
    /\ last_list[Val(req).session_id].scopes = {"admin"}
    /\ "create_user" \in DOMAIN session_tools[Val(req).session_id]
    /\ RejectedWith(METHOD_NOT_FOUND)

\* the request resumed after its handler
Resumed(r) == r # None /\ "resumed" \in DOMAIN Val(r)

\* C30: a tools/call is dispatched on one set, its session's entry as it is
\* when the call is taken up (or the registry): the tool is in that set and
\* the caller's scopes suffice for the tool as that set holds it; a
\* tools/list that runs while calls are suspended in their handlers leaves
\* them as they are; and a resumed call is answered with its handler's
\* outcome whatever the cache holds by then.
CallDecidesOnOneSnapshot ==
    /\ []((Handled("tools/call") /\ Dispatched)
            => /\ CallName \in DOMAIN VisibleSet
               /\ ~InsufficientScope(Val(req).scopes, VisibleSet[CallName])
               /\ Val(resp).handler = CallName)
    /\ [][ /\ (req' # None /\ Val(req').method = "tools/list") => inflight' = inflight
           /\ (req = None /\ Resumed(req'))
                 => /\ \E call \in BagToSet(inflight) :
                          /\ call.handler = Val(req').resumed
                          /\ inflight' = inflight (-) SetToBag({call})
                    /\ \/ Val(resp').kind = "result"
                       \/ /\ Val(resp').kind = "error"
                          /\ Val(resp').error.code = INTERNAL_ERROR
         ]_vars

\* a call resumed with its handler's result although every session's entry,
\* written since, lacks the tool
CallDecidesOnOneSnapshotWitness ==
    /\ Resumed(req)
    /\ Val(resp).kind = "result"
    /\ DOMAIN session_tools = {"session-1", "session-2"}
    /\ \A sid \in DOMAIN session_tools :
          /\ session_tools[sid] # <<>>
          /\ Val(req).resumed \notin DOMAIN session_tools[sid]

----------------------------------------------------------------------------
(* Unresolvable labels and absent detection, checked under FilterSpec *)

\* the labels a context supplies, explicit and detected
SuppliedLabels(context) ==
    (IF TruthyStr(context.task_type) THEN {Val(context.task_type)} ELSE {})
    \cup (IF TruthyList(context.detected_task_types)
          THEN Range(Val(context.detected_task_types)) ELSE {})

Unresolvable(label) ==
    /\ str_lower(str_strip(label)) \notin DOMAIN task_type_allowlists
    /\ str_lower(str_strip(label)) \notin DOMAIN alias_map

\* a query was classified and nothing was detected, under a policy that
\* forbids the fallback
StrictShortCircuit(context) ==
    /\ context.query # None
    /\ context.detected_task_types = Some(<<>>)
    /\ (http_settings.strict_context_limit \/ ~http_settings.intent_fallback_to_all)

\* C24: when labels are supplied and none of them is a canonical key or an
\* alias, the filter returns the input tools not tagged meta-ops, as it does
\* without any task type, whatever the strict and fallback flags are (the
\* strict short-circuit for an empty detection list excepted).
UnresolvableLabelsAreDropped ==
    ( /\ TaskTypeFilterApplied
      /\ SuppliedLabels(AppliedContext) # {}
      /\ \A label \in SuppliedLabels(AppliedContext) : Unresolvable(label)
      /\ ~StrictShortCircuit(AppliedContext) )
    => Val(fout) = Restrict(Val(fin).tools,
                            {n \in DOMAIN Val(fin).tools :
                                "meta-ops" \notin Range(Val(fin).tools[n].task_types)})

\* an unknown explicit label and an unknown detected one, strict policy
UnresolvableLabelsAreDroppedWitness ==
    /\ TaskTypeFilterApplied
    /\ AppliedContext.task_type = Some("bogus")
    /\ AppliedContext.detected_task_types = Some(<<"bogus">>)
    /\ AppliedContext.query # None
    /\ http_settings.strict_context_limit
    /\ DOMAIN Val(fin).tools = {"list_pools", "create_user", "list_tools", "pool_help"}
    /\ DOMAIN Val(fout) = {"list_pools", "create_user"}

\* C25: unless a query is present and detected_task_types is the empty list,
\* the filter does not short-circuit: its output is the output for the same
\* context without the query; in particular with detected_task_types None, a
\* query and a strict or no-fallback policy, and no task type, the output is
\* the input tools not tagged meta-ops.
NoShortCircuitWithoutEmptyDetection ==
    ( /\ TaskTypeFilterApplied
      /\ ~(AppliedContext.query # None /\ AppliedContext.detected_task_types = Some(<<>>)) )
    => /\ Val(fout) = TaskTypeFilter_apply(Val(fin).tools,
                          FilterContext(AppliedContext.task_type, None,
                                        AppliedContext.detected_task_types))
       /\ ( /\ AppliedContext.detected_task_types = None
            /\ ~TruthyStr(AppliedContext.task_type) )
          => DOMAIN Val(fout) =
                {n \in DOMAIN Val(fin).tools :
                    "meta-ops" \notin Range(Val(fin).tools[n].task_types)}

\* a query, no detection result, strict policy: the tools come back
NoShortCircuitWithoutEmptyDetectionWitness ==
    /\ TaskTypeFilterApplied
    /\ AppliedContext = FilterContext(None, Some("xyz-no-match"), None)
    /\ http_settings.strict_context_limit
    /\ ~http_settings.intent_fallback_to_all
    /\ DOMAIN Val(fin).tools = {"list_pools", "list_tools"}
    /\ DOMAIN Val(fout) = {"list_pools"}

\* several labels are resolved and their allowlists are not all empty
SeveralLabelsResolved ==
    /\ TaskTypeFilterApplied
    /\ Cardinality(ResolvedLabels(AppliedContext)) >= 2
    /\ MergedAllowlist(ResolvedLabels(AppliedContext)) # {}

\* C29 as stated: when several labels are resolved, every tool returned is
\* named in the allowlist of a resolved label that the tool itself carries.
NoCrossLabelAdmission ==
    SeveralLabelsResolved =>
        \A n \in DOMAIN Val(fout) :
            \E k \in ResolvedLabels(AppliedContext) :
                /\ n \in task_type_allowlists[k]
                /\ k \in Range(Val(fin).tools[n].task_types)

\* C29: when several labels are resolved, every tool returned is named in
\* the allowlist of a resolved label and carries a resolved label in its
\* task_types; the two labels need not be the same one.
AdmissionByMergedAllowlistAndAnyTag ==
    SeveralLabelsResolved =>
        \A n \in DOMAIN Val(fout) :
            /\ \E k \in ResolvedLabels(AppliedContext) : n \in task_type_allowlists[k]
            /\ \E k \in ResolvedLabels(AppliedContext) :
                   k \in Range(Val(fin).tools[n].task_types)

\* create_user, tagged user-ops only and named in the allowlist of
\* storage-ops only, is returned when both labels are resolved
AdmissionByMergedAllowlistAndAnyTagWitness ==
    /\ SeveralLabelsResolved
    /\ ResolvedLabels(AppliedContext) = {"user-ops", "storage-ops"}
    /\ "create_user" \in DOMAIN Val(fout)
    /\ "create_user" \notin task_type_allowlists["user-ops"]
    /\ "create_user" \in task_type_allowlists["storage-ops"]
    /\ Range(Val(fin).tools["create_user"].task_types) = {"user-ops"}

----------------------------------------------------------------------------
(* The cap and the blocklist together, checked under GateSpec *)

\* the names of the first k tools in the order priority descending, name
\* ascending
FirstByPriority(tools, k) ==
    {n \in DOMAIN tools :
        Cardinality({m \in DOMAIN tools :
            \/ tools[m].priority > tools[n].priority
            \/ tools[m].priority = tools[n].priority /\ str_lt(m, n)}) < k}

\* C28 as stated: when get_available_tools returns fewer than max_tools
\* tools, every tool that passed the Task-Type Filter and is not blocklisted
\* is in the returned set.
CapSlotsNotSpentOnBlockedTools ==
    ( /\ Applied("get_available_tools")
      /\ Cardinality(DOMAIN Val(fout).tools) < max_tools )
    => (DOMAIN TaskTypeStage(Val(fin).context)) \ blocklist \subseteq DOMAIN Val(fout).tools

\* C28: when the Task-Type Filter's output is within the cap, the returned
\* set is that output without the blocklisted tools; when it exceeds the
\* cap, the returned set is its first max_tools tools (priority descending,
\* name ascending) without the blocklisted ones among them, so blocklisted
\* tools do take cap slots.
CapAppliesBeforeBlocklist ==
    Applied("get_available_tools") =>
        IF Cardinality(DOMAIN TaskTypeStage(Val(fin).context)) <= max_tools
        THEN DOMAIN Val(fout).tools = (DOMAIN TaskTypeStage(Val(fin).context)) \ blocklist
        ELSE DOMAIN Val(fout).tools =
                FirstByPriority(TaskTypeStage(Val(fin).context), max_tools) \ blocklist

\* cap 2, get_pool blocklisted: get_pool took a slot, so list_pools alone is
\* returned and create_user, permitted, is not
CapAppliesBeforeBlocklistWitness ==
    /\ Applied("get_available_tools")
    /\ max_tools = 2
    /\ blocklist = {"get_pool"}
    /\ {"create_user", "get_pool", "list_pools"}
          \subseteq DOMAIN TaskTypeStage(Val(fin).context)
    /\ DOMAIN Val(fout).tools = {"list_pools"}

====
